---- MODULE Spec2Model ----
(***************************************************************************)
(* Rules engine of skillversi: the capture rule of utils/gameLogic (with   *)
(* the shield / barrier protection overlay) and the session state machine  *)
(* of hooks/useOthello (skill variant): makeMove, applySkill, advanceTurn, *)
(* resetGame.                                                              *)
(*                                                                         *)
(* Representation.                                                         *)
(*   Board        CellState[][]  ->  sequence of 8 rows of 8 cells; the    *)
(*                cell board[row][col] of the source is                    *)
(*                board[row + 1][col + 1] here (TLA+ sequences start at 1) *)
(*   null         ->  the string "null"                                    *)
(*   Move         {row, col}     ->  the pair <<row, col>>                 *)
(*   boolean[][]  (shield, barrier cells) -> the set of the cells that     *)
(*                hold true                                                *)
(*   T | null     (lastMove, barrier, target?) -> <<>> for null /          *)
(*                undefined, <<v>> for a value v                           *)
(*   Record<string, SkillType> (skillTiles) -> a function whose domain is  *)
(*                the set of keys; the key `${row},${col}` is the pair     *)
(*                <<row, col>> (posKey is injective on integers)           *)
(*                                                                         *)
(* Variables.                                                              *)
(*   gameState    the GameState held by useState                           *)
(*   lastCall     the last intent called and how it ended                  *)
(*   turnCalls    how many applySkill / makeMove calls were accepted since *)
(*                turnIndex last changed                                   *)
(*   barrierLog   the last accepted barrier activation: who, where, at     *)
(*                which turn index, and whether the other player has       *)
(*                completed a turn since                                   *)
(*   turnLimit    the turn index up to which the model follows a game      *)
(*   flipInput, flipCall   input and result of a getFlippableDiscs /       *)
(*                applyMove call on a drawn board                          *)
(*   app          the App component: mode, cpuPlayer, cpuLevel, the refs   *)
(*                cpuTimerRef and cpuBusyRef, whether the last run of the  *)
(*                CPU effect returned its cleanup function, the pending    *)
(*                skill and target, the update a timer callback enqueued   *)
(*                that is not rendered yet, and whether the effect of a    *)
(*                committed render has still to run                        *)
(*   timers       the timers set with window.setTimeout that have neither  *)
(*                fired nor been cleared, each with the values its         *)
(*                callback closes over                                     *)
(*   cpuIssued    the last firing of a CPU timer: what chooseSkillAction   *)
(*                and chooseMove returned and the intent issued            *)
(*   baseSession  a session of the base-variant hook (no skills) and the   *)
(*                outcome of the last makeMove call made to it             *)
(***************************************************************************)
EXTENDS Integers, Sequences, FiniteSets, TLC

VARIABLES gameState, lastCall, flipInput, flipCall, turnLimit, turnCalls, barrierLog,
          app, timers, cpuIssued, baseSession

appVars == <<app, timers, cpuIssued>>

vars == <<gameState, lastCall, flipInput, flipCall, turnLimit, turnCalls, barrierLog,
          app, timers, cpuIssued, baseSession>>

(***************************************************************************)
(* Bounds of the model (not program constants).                            *)
(***************************************************************************)
\* Intents are accepted only while turnIndex is below this bound.
MaxTurnIndex == 3

\* A game taken up in mid-play is followed for at most this many turns.
MaxMidTurns == 2

\* The shuffles followed are those of the random sequences seeded 0 up to
\* this bound.
MaxSeed == 23

\* The turn index up to which a game against the CPU is followed.
MaxCpuTurnIndex == 3

\* The number of cells at which the skill activations at the end of a whole
\* game are aimed.
MaxEndTargets == 5

(***************************************************************************)
(* utils/gameLogic                                                         *)
(***************************************************************************)
BOARD_SIZE == 8

NULL == "null"

UNDEFINED == "undefined"

Players == {"black", "white"}

SkillTypes == {"convert", "warp", "double", "shield", "barrier", "remove"}

Coords == 0 .. (BOARD_SIZE - 1)

Cells == Coords \X Coords

\* The coordinates an intent may carry: every in-range one and one on each
\* side of the range.
InputCoords == (0 - 1) .. BOARD_SIZE

Opponent(player) == IF player = "black" THEN "white" ELSE "black"

SeqToSet(s) == {s[i] : i \in 1 .. Len(s)}

\* Mutant: the opening with the two colours exchanged.
createInitialBoard_ColoursExchanged ==
    [r \in 1 .. BOARD_SIZE |-> [c \in 1 .. BOARD_SIZE |->
        CASE <<r - 1, c - 1>> = <<3, 3>> -> "black"
          [] <<r - 1, c - 1>> = <<3, 4>> -> "white"
          [] <<r - 1, c - 1>> = <<4, 3>> -> "white"
          [] <<r - 1, c - 1>> = <<4, 4>> -> "black"
          [] OTHER -> NULL]]

createInitialBoard ==
    [r \in 1 .. BOARD_SIZE |-> [c \in 1 .. BOARD_SIZE |->
        CASE <<r - 1, c - 1>> = <<3, 3>> -> "white"
          [] <<r - 1, c - 1>> = <<3, 4>> -> "black"
          [] <<r - 1, c - 1>> = <<4, 3>> -> "black"
          [] <<r - 1, c - 1>> = <<4, 4>> -> "white"
          [] OTHER -> NULL]]

DIRECTIONS ==
    << <<0 - 1, 0 - 1>>, <<0 - 1, 0>>, <<0 - 1, 1>>,
       <<0, 0 - 1>>, <<0, 1>>,
       <<1, 0 - 1>>, <<1, 0>>, <<1, 1>> >>

inBounds(row, col) ==
    row >= 0 /\ row < BOARD_SIZE /\ col >= 0 /\ col < BOARD_SIZE

isCorner(row, col) ==
    (row = 0 \/ row = BOARD_SIZE - 1) /\ (col = 0 \/ col = BOARD_SIZE - 1)

\* board[row] of the source: undefined when row is no index of the board.
\* Reading [col] of it then raises a TypeError.
rowUndefined(board, row) == row \notin Coords

\* board[row][col] for a defined row: undefined when col is no index.
cellAt(board, row, col) ==
    IF col \in Coords THEN board[row + 1][col + 1] ELSE UNDEFINED

\* The protection a call without the optional argument gets.
NoProtection == [shield |-> {}, barrier |-> <<>>]

barrierApplies(protection, player) ==
    /\ protection.barrier # <<>>
    /\ protection.barrier[1].active
    /\ protection.barrier[1].appliesTo = player

\* Mutant: the shield grid is not consulted.
isProtected_BarrierOnly(protection, player, r, c) ==
    /\ barrierApplies(protection, player)
    /\ <<r, c>> \in protection.barrier[1].cells

isProtected(protection, player, r, c) ==
    \/ <<r, c>> \in protection.shield
    \/ /\ barrierApplies(protection, player)
       /\ <<r, c>> \in protection.barrier[1].cells

\* The while loop of one direction: walks over opponent discs from (r, c),
\* collects the unprotected ones, and returns where it stopped.
RECURSIVE walkRay(_, _, _, _, _, _, _, _, _)
\* Mutant: protection per ray, a protected disc ends the walk.
walkRay_StopAtProtected(board, player, protection, r, c, dr, dc, temp, hasOpponent) ==
    IF /\ inBounds(r, c)
       /\ board[r + 1][c + 1] = Opponent(player)
       /\ ~isProtected(protection, player, r, c)
    THEN walkRay(board, player, protection, r + dr, c + dc, dr, dc,
                 Append(temp, <<r, c>>), TRUE)
    ELSE [r |-> r, c |-> c, temp |-> temp, hasOpponent |-> hasOpponent]

walkRay(board, player, protection, r, c, dr, dc, temp, hasOpponent) ==
    IF inBounds(r, c) /\ board[r + 1][c + 1] = Opponent(player)
    THEN walkRay(board, player, protection, r + dr, c + dc, dr, dc,
                 IF ~isProtected(protection, player, r, c)
                 THEN Append(temp, <<r, c>>) ELSE temp,
                 TRUE)
    ELSE [r |-> r, c |-> c, temp |-> temp, hasOpponent |-> hasOpponent]

\* One iteration of the for loop over DIRECTIONS: what it pushes.
rayFlips(board, player, row, col, protection, d) ==
    LET w == walkRay(board, player, protection, row + d[1], col + d[2],
                     d[1], d[2], <<>>, FALSE)
    IN IF /\ inBounds(w.r, w.c)
          /\ board[w.r + 1][w.c + 1] = player
          /\ w.hasOpponent
          /\ Len(w.temp) > 0
       THEN w.temp ELSE <<>>

\* The for loop over DIRECTIONS from its i-th iteration on: what the
\* remaining iterations push onto flippable, in order.
RECURSIVE pushRays(_, _, _, _, _, _)
pushRays(board, player, row, col, protection, i) ==
    IF i > Len(DIRECTIONS) THEN <<>>
    ELSE rayFlips(board, player, row, col, protection, DIRECTIONS[i])
         \o pushRays(board, player, row, col, protection, i + 1)

\* Mutant: the occupied-cell return is missing.
getFlippableDiscs_NoOccupiedCheck(board, player, row, col, protection) ==
    pushRays(board, player, row, col, protection, 1)

\* Requires a defined row (see rowUndefined).
getFlippableDiscs(board, player, row, col, protection) ==
    IF cellAt(board, row, col) # NULL THEN <<>>
    ELSE pushRays(board, player, row, col, protection, 1)

isValidMove(board, player, row, col, protection) ==
    Len(getFlippableDiscs(board, player, row, col, protection)) > 0

hasValidMoves(board, player, protection) ==
    \E r \in Coords : \E c \in Coords :
        isValidMove(board, player, r, c, protection)

\* Mutant: the placed disc is written, the captured discs are not turned.
applyMove_PlacesOnly(board, player, row, col, protection) ==
    LET flippable == getFlippableDiscs(board, player, row, col, protection)
    IN IF Len(flippable) = 0 THEN board
       ELSE [r \in 1 .. BOARD_SIZE |-> [c \in 1 .. BOARD_SIZE |->
                IF <<r - 1, c - 1>> = <<row, col>> THEN player ELSE board[r][c]]]

applyMove(board, player, row, col, protection) ==
    LET flippable == getFlippableDiscs(board, player, row, col, protection)
        flipped == SeqToSet(flippable)
    IN IF Len(flippable) = 0 THEN board
       ELSE [r \in 1 .. BOARD_SIZE |-> [c \in 1 .. BOARD_SIZE |->
                IF <<r - 1, c - 1>> = <<row, col>> \/ <<r - 1, c - 1>> \in flipped
                THEN player ELSE board[r][c]]]

countDiscs(board, player) ==
    Cardinality({p \in Cells : board[p[1] + 1][p[2] + 1] = player})

\* Mutant: each colour is given the other colour's count.
getScore_Exchanged(board) ==
    [black |-> countDiscs(board, "white"), white |-> countDiscs(board, "black")]

getScore(board) ==
    [black |-> countDiscs(board, "black"), white |-> countDiscs(board, "white")]

(***************************************************************************)
(* utils/gameLogic, base variant (no protection argument)                  *)
(***************************************************************************)
RECURSIVE baseWalkRay(_, _, _, _, _, _, _)
baseWalkRay(board, player, r, c, dr, dc, temp) ==
    IF /\ r >= 0 /\ r < BOARD_SIZE /\ c >= 0 /\ c < BOARD_SIZE
       /\ board[r + 1][c + 1] = Opponent(player)
    THEN baseWalkRay(board, player, r + dr, c + dc, dr, dc, Append(temp, <<r, c>>))
    ELSE [r |-> r, c |-> c, temp |-> temp]

baseRayFlips(board, player, row, col, d) ==
    LET w == baseWalkRay(board, player, row + d[1], col + d[2], d[1], d[2], <<>>)
    IN IF /\ w.r >= 0 /\ w.r < BOARD_SIZE /\ w.c >= 0 /\ w.c < BOARD_SIZE
          /\ board[w.r + 1][w.c + 1] = player
          /\ Len(w.temp) > 0
       THEN w.temp ELSE <<>>

RECURSIVE basePushRays(_, _, _, _, _)
basePushRays(board, player, row, col, i) ==
    IF i > Len(DIRECTIONS) THEN <<>>
    ELSE baseRayFlips(board, player, row, col, DIRECTIONS[i])
         \o basePushRays(board, player, row, col, i + 1)

\* Requires a defined row, like getFlippableDiscs.
baseGetFlippableDiscs(board, player, row, col) ==
    IF cellAt(board, row, col) # NULL THEN <<>>
    ELSE basePushRays(board, player, row, col, 1)

baseIsValidMove(board, player, row, col) ==
    Len(baseGetFlippableDiscs(board, player, row, col)) > 0

baseHasValidMoves(board, player) ==
    \E r \in Coords : \E c \in Coords : baseIsValidMove(board, player, r, c)

baseApplyMove(board, player, row, col) ==
    LET flippable == baseGetFlippableDiscs(board, player, row, col)
        flipped == SeqToSet(flippable)
    IN IF Len(flippable) = 0 THEN board
       ELSE [r \in 1 .. BOARD_SIZE |-> [c \in 1 .. BOARD_SIZE |->
                IF <<r - 1, c - 1>> = <<row, col>> \/ <<r - 1, c - 1>> \in flipped
                THEN player ELSE board[r][c]]]

(***************************************************************************)
(* hooks/useOthello (base variant): the session without skills             *)
(***************************************************************************)
\* The state useState is given at construction.
baseInitialGameState ==
    [board |-> createInitialBoard,
     currentPlayer |-> "black",
     score |-> [black |-> 2, white |-> 2],
     gameOver |-> FALSE,
     winner |-> NULL,
     lastMove |-> <<>>]

\* resetGame(): the state set is the opening position.
baseResetGame ==
    [board |-> createInitialBoard, currentPlayer |-> "black",
     score |-> [black |-> 2, white |-> 2], gameOver |-> FALSE, winner |-> NULL,
     lastMove |-> <<>>]

\* The updater raises a TypeError instead of returning: past the gameOver
\* return, isValidMove reads board[row][col] with an undefined board[row].
baseMakeMoveThrows(prev, row, col) ==
    ~prev.gameOver /\ rowUndefined(prev.board, row)

\* The updater makeMove hands to setGameState; requires ~baseMakeMoveThrows.
baseMakeMove(prev, row, col) ==
    IF prev.gameOver THEN prev
    ELSE IF ~baseIsValidMove(prev.board, prev.currentPlayer, row, col) THEN prev
    ELSE LET flippable == baseGetFlippableDiscs(prev.board, prev.currentPlayer, row, col)
             newBoard == baseApplyMove(prev.board, prev.currentPlayer, row, col)
             newScore == getScore(newBoard)
             opponent == Opponent(prev.currentPlayer)
             canNextMove == baseHasValidMoves(newBoard, opponent)
             canPrevMove == baseHasValidMoves(newBoard, prev.currentPlayer)
             nextPlayer ==
                 IF ~canNextMove /\ canPrevMove THEN prev.currentPlayer ELSE opponent
             ended == ~canNextMove /\ ~canPrevMove
             winner ==
                 IF newScore.black > newScore.white THEN "black"
                 ELSE IF newScore.white > newScore.black THEN "white"
                 ELSE "draw"
         IN [board |-> newBoard,
             currentPlayer |-> nextPlayer,
             score |-> newScore,
             gameOver |-> IF ended THEN TRUE ELSE prev.gameOver,
             winner |-> IF ended THEN winner ELSE prev.winner,
             lastMove |-> <<[player |-> prev.currentPlayer, row |-> row, col |-> col,
                             flipped |-> flippable]>>]

(***************************************************************************)
(* hooks/useOthello (skill variant): helpers                               *)
(***************************************************************************)
\* SKILL_POOL[index] for index 0 .. 7 is SKILL_POOL[index + 1] here.
SKILL_POOL ==
    <<"convert", "convert", "warp", "double", "shield", "barrier", "remove", "remove">>

\* The display names are Japanese strings; each is stood for by an ASCII
\* string of its own, so the table stays injective as in the source.
SKILL_NAMES ==
    [convert |-> "henshoku", warp |-> "waapu", double |-> "2kai-oki",
     shield |-> "shiirudo", barrier |-> "baria", remove |-> "jokyo"]

createEmptyBoolGrid == {}

posKey(row, col) == <<row, col>>

\* `(${row + 1},${col + 1})`
formatPos(row, col) == <<row + 1, col + 1>>

playerLabel(player) == IF player = "black" THEN "BLACK" ELSE "WHITE"

\* The three log templates: "<P> ga <S> wo kakutoku <pos>", "<P> no tefuda ga
\* jougen no tame <S> wo kakutoku dekinakatta <pos>", "<P> ga <S> wo shiyou
\* [<pos>]". pos is <<>> for the template without a position.
logEntry(template, player, skill, pos) ==
    [template |-> template, player |-> playerLabel(player),
     skill |-> SKILL_NAMES[skill], pos |-> pos]

\* Mutant: every cell of the board may receive a tile.
tilePositions_WholeBoard == Cells

\* The cells createRandomSkillTiles shuffles: every cell but the corners and
\* the four centre cells.
tilePositions ==
    {p \in Cells : ~isCorner(p[1], p[2])
                   /\ p \notin {<<3, 3>>, <<3, 4>>, <<4, 3>>, <<4, 4>>}}

\* createRandomSkillTiles, given the first eight entries of the shuffled
\* position list: SKILL_POOL[index] goes to positions[index].
createRandomSkillTiles(positions) ==
    [k \in {posKey(positions[i][1], positions[i][2]) : i \in 1 .. Len(SKILL_POOL)} |->
        SKILL_POOL[CHOOSE i \in 1 .. Len(SKILL_POOL) :
                       posKey(positions[i][1], positions[i][2]) = k]]

\* The positions list of createRandomSkillTiles before the shuffle: the
\* cells of tilePositions in row-major order.
positionList ==
    LET rowMajor == [n \in 1 .. (BOARD_SIZE * BOARD_SIZE) |->
                        <<(n - 1) \div BOARD_SIZE, (n - 1) % BOARD_SIZE>>]
        kept(p) == p \in tilePositions
    IN SelectSeq(rowMajor, kept)

\* [positions[i], positions[j]] = [positions[j], positions[i]], indices
\* counted from 0.
swapPositions(positions, i, j) ==
    [positions EXCEPT ![i + 1] = positions[j + 1], ![j + 1] = positions[i + 1]]

\* The shuffle loop of createRandomSkillTiles from index i down to 1, where
\* random[i] is the value of Math.floor(Math.random() * (i + 1)) at index i.
RECURSIVE shufflePositions(_, _, _)
shufflePositions(positions, i, random) ==
    IF i <= 0 THEN positions
    ELSE shufflePositions(swapPositions(positions, i, random[i]), i - 1, random)

\* The first Len(SKILL_POOL) positions after the shuffle, the ones the
\* forEach over SKILL_POOL reads.
shuffledPositions(random) ==
    SubSeq(shufflePositions(positionList, Len(positionList) - 1, random),
           1, Len(SKILL_POOL))

buildBarrierCells(row, col) ==
    {<<row + dr, col + dc>> : dr \in (0 - 1) .. 1, dc \in (0 - 1) .. 1}
        \cap {p \in Cells : p # <<row, col>>}

\* Mutant: the barrier applies whatever the turn index.
getFlipProtection_IgnoresExpiry(state, player, turnIndex) ==
    LET barrierActive ==
            /\ state.barrier # <<>>
            /\ state.barrier[1].active
            /\ state.barrier[1].appliesTo = player
    IN [shield |-> state.shield,
        barrier |-> IF barrierActive
                    THEN <<[active |-> TRUE, appliesTo |-> player,
                            cells |-> state.barrier[1].cells]>>
                    ELSE <<>>]

\* Mutant: the barrier applies to whoever moves.
getFlipProtection_AnyPlayer(state, player, turnIndex) ==
    LET barrierActive ==
            /\ state.barrier # <<>>
            /\ state.barrier[1].active
            /\ state.barrier[1].expiresOnTurn = turnIndex
    IN [shield |-> state.shield,
        barrier |-> IF barrierActive
                    THEN <<[active |-> TRUE, appliesTo |-> player,
                            cells |-> state.barrier[1].cells]>>
                    ELSE <<>>]

getFlipProtection(state, player, turnIndex) ==
    LET barrierActive ==
            /\ state.barrier # <<>>
            /\ state.barrier[1].active
            /\ state.barrier[1].appliesTo = player
            /\ state.barrier[1].expiresOnTurn = turnIndex
    IN [shield |-> state.shield,
        barrier |-> IF barrierActive
                    THEN <<[active |-> TRUE, appliesTo |-> player,
                            cells |-> state.barrier[1].cells]>>
                    ELSE <<>>]

includes(hand, skill) == \E i \in 1 .. Len(hand) : hand[i] = skill

\* Mutant: every copy of the skill leaves the hand.
removeSkillOnce_RemovesEveryCopy(hand, skill) ==
    LET Other(entry) == entry # skill
    IN SelectSeq(hand, Other)

\* Mutant: an activated skill stays in the hand.
removeSkillOnce_KeepsSkill(hand, skill) == hand

removeSkillOnce(hand, skill) ==
    IF ~includes(hand, skill) THEN hand
    ELSE LET index == CHOOSE i \in 1 .. Len(hand) :
                          hand[i] = skill /\ \A j \in 1 .. (i - 1) : hand[j] # skill
         IN SubSeq(hand, 1, index - 1) \o SubSeq(hand, index + 1, Len(hand))

isValidSkillTarget(state, skill, row, col) ==
    IF row < 0 \/ row >= BOARD_SIZE \/ col < 0 \/ col >= BOARD_SIZE THEN FALSE
    ELSE LET cell == state.board[row + 1][col + 1]
         IN CASE skill = "convert" ->
                   cell # NULL /\ cell # state.currentPlayer /\ ~isCorner(row, col)
              [] skill = "warp" -> cell = NULL
              [] skill = "double" -> FALSE
              [] skill = "shield" ->
                   cell = state.currentPlayer /\ <<row, col>> \notin state.shield
              [] skill = "barrier" -> cell = NULL
              [] skill = "remove" -> cell # NULL /\ ~isCorner(row, col)
              [] OTHER -> FALSE

\* Mutant: the capacity test is missing.
applySkillTilePickup_NoCapacity(state, row, col, player) ==
    IF posKey(row, col) \notin DOMAIN state.skillTiles
    THEN [skillTiles |-> state.skillTiles, hands |-> state.hands, logs |-> state.logs]
    ELSE LET skill == state.skillTiles[posKey(row, col)]
             nextSkillTiles ==
                 [k \in (DOMAIN state.skillTiles) \ {posKey(row, col)} |->
                     state.skillTiles[k]]
             hand == state.hands[player]
         IN [skillTiles |-> nextSkillTiles,
             hands |-> [state.hands EXCEPT ![player] = Append(hand, skill)],
             logs |-> Append(state.logs,
                             logEntry("pickup", player, skill, formatPos(row, col)))]

\* Mutant: a full hand leaves the tile on the board.
applySkillTilePickup_FullHandKeepsTile(state, row, col, player) ==
    IF posKey(row, col) \notin DOMAIN state.skillTiles
    THEN [skillTiles |-> state.skillTiles, hands |-> state.hands, logs |-> state.logs]
    ELSE LET skill == state.skillTiles[posKey(row, col)]
             nextSkillTiles ==
                 [k \in (DOMAIN state.skillTiles) \ {posKey(row, col)} |->
                     state.skillTiles[k]]
             hand == state.hands[player]
         IN IF Len(hand) >= 2
            THEN [skillTiles |-> state.skillTiles, hands |-> state.hands,
                  logs |-> Append(state.logs,
                                  logEntry("handFull", player, skill, formatPos(row, col)))]
            ELSE [skillTiles |-> nextSkillTiles,
                  hands |-> [state.hands EXCEPT ![player] = Append(hand, skill)],
                  logs |-> Append(state.logs,
                                  logEntry("pickup", player, skill, formatPos(row, col)))]

\* Mutant: the tile stays on the board when its skill goes to the hand.
applySkillTilePickup_TileStays(state, row, col, player) ==
    IF posKey(row, col) \notin DOMAIN state.skillTiles
    THEN [skillTiles |-> state.skillTiles, hands |-> state.hands, logs |-> state.logs]
    ELSE LET skill == state.skillTiles[posKey(row, col)]
             hand == state.hands[player]
         IN IF Len(hand) >= 2
            THEN [skillTiles |-> state.skillTiles, hands |-> state.hands,
                  logs |-> Append(state.logs,
                                  logEntry("handFull", player, skill, formatPos(row, col)))]
            ELSE [skillTiles |-> state.skillTiles,
                  hands |-> [state.hands EXCEPT ![player] = Append(hand, skill)],
                  logs |-> Append(state.logs,
                                  logEntry("pickup", player, skill, formatPos(row, col)))]

applySkillTilePickup(state, row, col, player) ==
    IF posKey(row, col) \notin DOMAIN state.skillTiles
    THEN [skillTiles |-> state.skillTiles, hands |-> state.hands, logs |-> state.logs]
    ELSE LET skill == state.skillTiles[posKey(row, col)]
             nextSkillTiles ==
                 [k \in (DOMAIN state.skillTiles) \ {posKey(row, col)} |->
                     state.skillTiles[k]]
             hand == state.hands[player]
         IN IF Len(hand) >= 2
            THEN [skillTiles |-> nextSkillTiles, hands |-> state.hands,
                  logs |-> Append(state.logs,
                                  logEntry("handFull", player, skill, formatPos(row, col)))]
            ELSE [skillTiles |-> nextSkillTiles,
                  hands |-> [state.hands EXCEPT ![player] = Append(hand, skill)],
                  logs |-> Append(state.logs,
                                  logEntry("pickup", player, skill, formatPos(row, col)))]

\* Mutant: the turn always passes to the opponent.
advanceTurn_NoSkip(state) ==
    LET nextTurnIndex == state.turnIndex + 1
        opponent == Opponent(state.currentPlayer)
        opponentHasMoves ==
            hasValidMoves(state.board, opponent,
                          getFlipProtection(state, opponent, nextTurnIndex))
        currentHasMoves ==
            hasValidMoves(state.board, state.currentPlayer,
                          getFlipProtection(state, state.currentPlayer, nextTurnIndex))
        gameOver == ~opponentHasMoves /\ ~currentHasMoves
        nextPlayer ==
            opponent
        winner ==
            IF ~gameOver THEN NULL
            ELSE IF state.score.black > state.score.white THEN "black"
            ELSE IF state.score.white > state.score.black THEN "white"
            ELSE "draw"
        barrier ==
            IF /\ state.barrier # <<>>
               /\ state.barrier[1].active
               /\ nextTurnIndex > state.barrier[1].expiresOnTurn
            THEN <<[state.barrier[1] EXCEPT !.active = FALSE]>>
            ELSE state.barrier
    IN [state EXCEPT !.currentPlayer = nextPlayer,
                     !.turnIndex = nextTurnIndex,
                     !.gameOver = gameOver,
                     !.winner = winner,
                     !.barrier = barrier,
                     !.turnSkillUsed = FALSE,
                     !.doubleMoveRemaining = 0]

\* Mutant: the game ends as soon as the opponent has no placement.
advanceTurn_EndsWhenOpponentStuck(state) ==
    LET nextTurnIndex == state.turnIndex + 1
        opponent == Opponent(state.currentPlayer)
        opponentHasMoves ==
            hasValidMoves(state.board, opponent,
                          getFlipProtection(state, opponent, nextTurnIndex))
        currentHasMoves ==
            hasValidMoves(state.board, state.currentPlayer,
                          getFlipProtection(state, state.currentPlayer, nextTurnIndex))
        gameOver == ~opponentHasMoves
        nextPlayer ==
            IF ~opponentHasMoves /\ currentHasMoves THEN state.currentPlayer ELSE opponent
        winner ==
            IF ~gameOver THEN NULL
            ELSE IF state.score.black > state.score.white THEN "black"
            ELSE IF state.score.white > state.score.black THEN "white"
            ELSE "draw"
        barrier ==
            IF /\ state.barrier # <<>>
               /\ state.barrier[1].active
               /\ nextTurnIndex > state.barrier[1].expiresOnTurn
            THEN <<[state.barrier[1] EXCEPT !.active = FALSE]>>
            ELSE state.barrier
    IN [state EXCEPT !.currentPlayer = nextPlayer,
                     !.turnIndex = nextTurnIndex,
                     !.gameOver = gameOver,
                     !.winner = winner,
                     !.barrier = barrier,
                     !.turnSkillUsed = FALSE,
                     !.doubleMoveRemaining = 0]

\* Mutant: the barrier is never deactivated.
advanceTurn_BarrierStaysActive(state) ==
    LET nextTurnIndex == state.turnIndex + 1
        opponent == Opponent(state.currentPlayer)
        opponentHasMoves ==
            hasValidMoves(state.board, opponent,
                          getFlipProtection(state, opponent, nextTurnIndex))
        currentHasMoves ==
            hasValidMoves(state.board, state.currentPlayer,
                          getFlipProtection(state, state.currentPlayer, nextTurnIndex))
        gameOver == ~opponentHasMoves /\ ~currentHasMoves
        nextPlayer ==
            IF ~opponentHasMoves /\ currentHasMoves THEN state.currentPlayer ELSE opponent
        winner ==
            IF ~gameOver THEN NULL
            ELSE IF state.score.black > state.score.white THEN "black"
            ELSE IF state.score.white > state.score.black THEN "white"
            ELSE "draw"
    IN [state EXCEPT !.currentPlayer = nextPlayer,
                     !.turnIndex = nextTurnIndex,
                     !.gameOver = gameOver,
                     !.winner = winner,
                     !.turnSkillUsed = FALSE,
                     !.doubleMoveRemaining = 0]

advanceTurn(state) ==
    LET nextTurnIndex == state.turnIndex + 1
        opponent == Opponent(state.currentPlayer)
        opponentHasMoves ==
            hasValidMoves(state.board, opponent,
                          getFlipProtection(state, opponent, nextTurnIndex))
        currentHasMoves ==
            hasValidMoves(state.board, state.currentPlayer,
                          getFlipProtection(state, state.currentPlayer, nextTurnIndex))
        gameOver == ~opponentHasMoves /\ ~currentHasMoves
        nextPlayer ==
            IF ~opponentHasMoves /\ currentHasMoves THEN state.currentPlayer ELSE opponent
        winner ==
            IF ~gameOver THEN NULL
            ELSE IF state.score.black > state.score.white THEN "black"
            ELSE IF state.score.white > state.score.black THEN "white"
            ELSE "draw"
        barrier ==
            IF /\ state.barrier # <<>>
               /\ state.barrier[1].active
               /\ nextTurnIndex > state.barrier[1].expiresOnTurn
            THEN <<[state.barrier[1] EXCEPT !.active = FALSE]>>
            ELSE state.barrier
    IN [state EXCEPT !.currentPlayer = nextPlayer,
                     !.turnIndex = nextTurnIndex,
                     !.gameOver = gameOver,
                     !.winner = winner,
                     !.barrier = barrier,
                     !.turnSkillUsed = FALSE,
                     !.doubleMoveRemaining = 0]

\* The state useState is given at construction, and resetGame sets.
initialGameState(positions) ==
    [board |-> createInitialBoard,
     currentPlayer |-> "black",
     score |-> [black |-> 2, white |-> 2],
     gameOver |-> FALSE,
     winner |-> NULL,
     lastMove |-> <<>>,
     skillTiles |-> createRandomSkillTiles(positions),
     hands |-> [black |-> <<>>, white |-> <<>>],
     shield |-> createEmptyBoolGrid,
     barrier |-> <<>>,
     logs |-> <<>>,
     turnIndex |-> 0,
     turnSkillUsed |-> FALSE,
     doubleMoveRemaining |-> 0]

(***************************************************************************)
(* hooks/useOthello (skill variant): the state updaters                    *)
(***************************************************************************)
\* makeMove's updater raises a TypeError instead of returning: past the
\* gameOver return, getFlippableDiscs reads board[row][col] with an undefined
\* board[row].
makeMoveThrows(prev, row, col) ==
    ~prev.gameOver /\ rowUndefined(prev.board, row)

\* Mutant: the double sequence goes on after its first placement without
\* asking whether the player can place again.
placeDisc_IgnoresMobility(prev, row, col, protection) ==
    LET flippable == getFlippableDiscs(prev.board, prev.currentPlayer, row, col, protection)
        newBoard == applyMove(prev.board, prev.currentPlayer, row, col, protection)
        newScore == getScore(newBoard)
        pickup == applySkillTilePickup(prev, row, col, prev.currentPlayer)
        updatedState ==
            [prev EXCEPT !.board = newBoard,
                         !.score = newScore,
                         !.lastMove = <<[player |-> prev.currentPlayer, row |-> row,
                                         col |-> col, flipped |-> flippable]>>,
                         !.skillTiles = pickup.skillTiles,
                         !.hands = pickup.hands,
                         !.logs = pickup.logs]
    IN IF prev.doubleMoveRemaining > 0
       THEN LET remaining == prev.doubleMoveRemaining - 1
            IN IF remaining > 0
               THEN [updatedState EXCEPT !.doubleMoveRemaining = remaining,
                                         !.turnSkillUsed = TRUE]
               ELSE advanceTurn([updatedState EXCEPT !.doubleMoveRemaining = 0,
                                                     !.turnSkillUsed = TRUE])
       ELSE advanceTurn(updatedState)

\* Mutant: turnIndex counts every placement of a double sequence.
placeDisc_CountsEachPlacement(prev, row, col, protection) ==
    LET flippable == getFlippableDiscs(prev.board, prev.currentPlayer, row, col, protection)
        newBoard == applyMove(prev.board, prev.currentPlayer, row, col, protection)
        newScore == getScore(newBoard)
        pickup == applySkillTilePickup(prev, row, col, prev.currentPlayer)
        updatedState ==
            [prev EXCEPT !.board = newBoard,
                         !.score = newScore,
                         !.lastMove = <<[player |-> prev.currentPlayer, row |-> row,
                                         col |-> col, flipped |-> flippable]>>,
                         !.skillTiles = pickup.skillTiles,
                         !.hands = pickup.hands,
                         !.logs = pickup.logs]
    IN IF prev.doubleMoveRemaining > 0
       THEN LET remaining == prev.doubleMoveRemaining - 1
                stillHasMoves ==
                    /\ remaining > 0
                    /\ hasValidMoves(newBoard, prev.currentPlayer,
                                     getFlipProtection(updatedState, prev.currentPlayer,
                                                       prev.turnIndex))
            IN IF remaining > 0 /\ stillHasMoves
               THEN [updatedState EXCEPT !.doubleMoveRemaining = remaining,
                                         !.turnSkillUsed = TRUE,
                                         !.turnIndex = prev.turnIndex + 1]
               ELSE advanceTurn([updatedState EXCEPT !.doubleMoveRemaining = 0,
                                                     !.turnSkillUsed = TRUE])
       ELSE advanceTurn(updatedState)

\* makeMove past its two early returns: the placement is applied.
placeDisc(prev, row, col, protection) ==
    LET flippable == getFlippableDiscs(prev.board, prev.currentPlayer, row, col, protection)
        newBoard == applyMove(prev.board, prev.currentPlayer, row, col, protection)
        newScore == getScore(newBoard)
        pickup == applySkillTilePickup(prev, row, col, prev.currentPlayer)
        updatedState ==
            [prev EXCEPT !.board = newBoard,
                         !.score = newScore,
                         !.lastMove = <<[player |-> prev.currentPlayer, row |-> row,
                                         col |-> col, flipped |-> flippable]>>,
                         !.skillTiles = pickup.skillTiles,
                         !.hands = pickup.hands,
                         !.logs = pickup.logs]
    IN IF prev.doubleMoveRemaining > 0
       THEN LET remaining == prev.doubleMoveRemaining - 1
                stillHasMoves ==
                    /\ remaining > 0
                    /\ hasValidMoves(newBoard, prev.currentPlayer,
                                     getFlipProtection(updatedState, prev.currentPlayer,
                                                       prev.turnIndex))
            IN IF remaining > 0 /\ stillHasMoves
               THEN [updatedState EXCEPT !.doubleMoveRemaining = remaining,
                                         !.turnSkillUsed = TRUE]
               ELSE advanceTurn([updatedState EXCEPT !.doubleMoveRemaining = 0,
                                                     !.turnSkillUsed = TRUE])
       ELSE advanceTurn(updatedState)

\* Mutant: a rejected placement is written to the log.
makeMove_LogsRejection(prev, row, col) ==
    IF prev.gameOver THEN prev
    ELSE LET protection == getFlipProtection(prev, prev.currentPlayer, prev.turnIndex)
         IN IF ~isValidMove(prev.board, prev.currentPlayer, row, col, protection)
            THEN [prev EXCEPT !.logs = Append(prev.logs,
                                              logEntry("use", prev.currentPlayer, "warp",
                                                       formatPos(row, col)))]
            ELSE placeDisc(prev, row, col, protection)

\* Mutant: an accepted placement leaves lastMove null.
makeMove_NoLastMove(prev, row, col) ==
    IF prev.gameOver THEN prev
    ELSE LET protection == getFlipProtection(prev, prev.currentPlayer, prev.turnIndex)
         IN IF ~isValidMove(prev.board, prev.currentPlayer, row, col, protection)
            THEN prev
            ELSE [placeDisc(prev, row, col, protection) EXCEPT !.lastMove = <<>>]

\* The updater makeMove hands to setGameState; requires ~makeMoveThrows.
makeMove(prev, row, col) ==
    IF prev.gameOver THEN prev
    ELSE LET protection == getFlipProtection(prev, prev.currentPlayer, prev.turnIndex)
         IN IF ~isValidMove(prev.board, prev.currentPlayer, row, col, protection)
            THEN prev
            ELSE placeDisc(prev, row, col, protection)

\* Mutant: the activation opens the double sequence without marking the
\* turn's skill as used.
startDouble_LeavesSkillUnused(prev, skill) ==
    LET protection == getFlipProtection(prev, prev.currentPlayer, prev.turnIndex)
    IN IF ~hasValidMoves(prev.board, prev.currentPlayer, protection) THEN prev
       ELSE [prev EXCEPT
                !.hands = [prev.hands EXCEPT ![prev.currentPlayer] =
                              removeSkillOnce(prev.hands[prev.currentPlayer], skill)],
                !.logs = Append(prev.logs,
                                logEntry("use", prev.currentPlayer, skill, <<>>)),
                !.doubleMoveRemaining = 2,
                !.lastMove = <<>>]

\* applySkill's branch for "double", past the hand check.
startDouble(prev, skill) ==
    LET protection == getFlipProtection(prev, prev.currentPlayer, prev.turnIndex)
    IN IF ~hasValidMoves(prev.board, prev.currentPlayer, protection) THEN prev
       ELSE [prev EXCEPT
                !.hands = [prev.hands EXCEPT ![prev.currentPlayer] =
                              removeSkillOnce(prev.hands[prev.currentPlayer], skill)],
                !.logs = Append(prev.logs,
                                logEntry("use", prev.currentPlayer, skill, <<>>)),
                !.turnSkillUsed = TRUE,
                !.doubleMoveRemaining = 2,
                !.lastMove = <<>>]

\* Mutant: the barrier expires at the turn index of its activation.
applyTargetedSkill_BarrierExpiresAtOnce(prev, skill, row, col) ==
    LET nextHands == [prev.hands EXCEPT ![prev.currentPlayer] =
                         removeSkillOnce(prev.hands[prev.currentPlayer], skill)]
        useLogs == Append(prev.logs,
                          logEntry("use", prev.currentPlayer, skill, formatPos(row, col)))
        nextBoard ==
            CASE skill = "convert" ->
                   [prev.board EXCEPT ![row + 1][col + 1] = prev.currentPlayer]
              [] skill = "remove" -> [prev.board EXCEPT ![row + 1][col + 1] = NULL]
              [] skill = "warp" ->
                   [prev.board EXCEPT ![row + 1][col + 1] = prev.currentPlayer]
              [] OTHER -> prev.board
        nextShield ==
            CASE skill \in {"convert", "remove"} -> prev.shield \ {<<row, col>>}
              [] skill = "shield" -> prev.shield \cup {<<row, col>>}
              [] OTHER -> prev.shield
        nextBarrier ==
            IF skill = "barrier"
            THEN <<[active |-> TRUE,
                    owner |-> prev.currentPlayer,
                    appliesTo |-> Opponent(prev.currentPlayer),
                    expiresOnTurn |-> prev.turnIndex,
                    cells |-> buildBarrierCells(row, col)]>>
            ELSE prev.barrier
    IN IF skill = "warp"
       THEN LET pickup ==
                    applySkillTilePickup([prev EXCEPT !.hands = nextHands,
                                                      !.logs = useLogs],
                                         row, col, prev.currentPlayer)
            IN advanceTurn([prev EXCEPT
                               !.board = nextBoard,
                               !.score = getScore(nextBoard),
                               !.lastMove = <<[player |-> prev.currentPlayer, row |-> row,
                                               col |-> col, flipped |-> <<>>]>>,
                               !.hands = pickup.hands,
                               !.skillTiles = pickup.skillTiles,
                               !.logs = pickup.logs,
                               !.shield = nextShield,
                               !.barrier = nextBarrier,
                               !.turnSkillUsed = TRUE])
       ELSE advanceTurn([prev EXCEPT
                            !.board = nextBoard,
                            !.score = getScore(nextBoard),
                            !.lastMove = <<>>,
                            !.hands = nextHands,
                            !.logs = useLogs,
                            !.shield = nextShield,
                            !.barrier = nextBarrier,
                            !.turnSkillUsed = TRUE])

\* applySkill past the target check: the effect of a targeted skill on
\* (row, col), then the turn advance.
applyTargetedSkill(prev, skill, row, col) ==
    LET nextHands == [prev.hands EXCEPT ![prev.currentPlayer] =
                         removeSkillOnce(prev.hands[prev.currentPlayer], skill)]
        useLogs == Append(prev.logs,
                          logEntry("use", prev.currentPlayer, skill, formatPos(row, col)))
        nextBoard ==
            CASE skill = "convert" ->
                   [prev.board EXCEPT ![row + 1][col + 1] = prev.currentPlayer]
              [] skill = "remove" -> [prev.board EXCEPT ![row + 1][col + 1] = NULL]
              [] skill = "warp" ->
                   [prev.board EXCEPT ![row + 1][col + 1] = prev.currentPlayer]
              [] OTHER -> prev.board
        nextShield ==
            CASE skill \in {"convert", "remove"} -> prev.shield \ {<<row, col>>}
              [] skill = "shield" -> prev.shield \cup {<<row, col>>}
              [] OTHER -> prev.shield
        nextBarrier ==
            IF skill = "barrier"
            THEN <<[active |-> TRUE,
                    owner |-> prev.currentPlayer,
                    appliesTo |-> Opponent(prev.currentPlayer),
                    expiresOnTurn |-> prev.turnIndex + 1,
                    cells |-> buildBarrierCells(row, col)]>>
            ELSE prev.barrier
    IN IF skill = "warp"
       THEN LET pickup ==
                    applySkillTilePickup([prev EXCEPT !.hands = nextHands,
                                                      !.logs = useLogs],
                                         row, col, prev.currentPlayer)
            IN advanceTurn([prev EXCEPT
                               !.board = nextBoard,
                               !.score = getScore(nextBoard),
                               !.lastMove = <<[player |-> prev.currentPlayer, row |-> row,
                                               col |-> col, flipped |-> <<>>]>>,
                               !.hands = pickup.hands,
                               !.skillTiles = pickup.skillTiles,
                               !.logs = pickup.logs,
                               !.shield = nextShield,
                               !.barrier = nextBarrier,
                               !.turnSkillUsed = TRUE])
       ELSE advanceTurn([prev EXCEPT
                            !.board = nextBoard,
                            !.score = getScore(nextBoard),
                            !.lastMove = <<>>,
                            !.hands = nextHands,
                            !.logs = useLogs,
                            !.shield = nextShield,
                            !.barrier = nextBarrier,
                            !.turnSkillUsed = TRUE])

\* Mutant: the gameOver return is missing.
applySkill_NoGameOverCheck(prev, skill, target) ==
    IF prev.turnSkillUsed THEN prev
    ELSE IF prev.doubleMoveRemaining > 0 THEN prev
    ELSE IF ~includes(prev.hands[prev.currentPlayer], skill) THEN prev
    ELSE IF skill = "double" THEN startDouble(prev, skill)
    ELSE IF target = <<>> THEN prev
    ELSE IF ~isValidSkillTarget(prev, skill, target[1][1], target[1][2]) THEN prev
    ELSE applyTargetedSkill(prev, skill, target[1][1], target[1][2])

\* Mutant: the hand is not checked.
applySkill_NoHandCheck(prev, skill, target) ==
    IF prev.gameOver THEN prev
    ELSE IF prev.turnSkillUsed THEN prev
    ELSE IF prev.doubleMoveRemaining > 0 THEN prev
    ELSE IF skill = "double" THEN startDouble(prev, skill)
    ELSE IF target = <<>> THEN prev
    ELSE IF ~isValidSkillTarget(prev, skill, target[1][1], target[1][2]) THEN prev
    ELSE applyTargetedSkill(prev, skill, target[1][1], target[1][2])

\* Mutant: the turnSkillUsed and doubleMoveRemaining returns are missing.
applySkill_NoTurnGuards(prev, skill, target) ==
    IF prev.gameOver THEN prev
    ELSE IF ~includes(prev.hands[prev.currentPlayer], skill) THEN prev
    ELSE IF skill = "double" THEN startDouble(prev, skill)
    ELSE IF target = <<>> THEN prev
    ELSE IF ~isValidSkillTarget(prev, skill, target[1][1], target[1][2]) THEN prev
    ELSE applyTargetedSkill(prev, skill, target[1][1], target[1][2])

\* Mutant: convert and remove drop the barrier.
applySkill_ConvertRemoveDropBarrier(prev, skill, target) ==
    IF prev.gameOver THEN prev
    ELSE IF prev.turnSkillUsed THEN prev
    ELSE IF prev.doubleMoveRemaining > 0 THEN prev
    ELSE IF ~includes(prev.hands[prev.currentPlayer], skill) THEN prev
    ELSE IF skill = "double" THEN startDouble(prev, skill)
    ELSE IF target = <<>> THEN prev
    ELSE IF ~isValidSkillTarget(prev, skill, target[1][1], target[1][2]) THEN prev
    ELSE IF skill \in {"convert", "remove"}
    THEN [applyTargetedSkill(prev, skill, target[1][1], target[1][2])
             EXCEPT !.barrier = <<>>]
    ELSE applyTargetedSkill(prev, skill, target[1][1], target[1][2])

\* Mutant: a warp onto a cell where a placement would capture captures.
applySkill_WarpCaptures(prev, skill, target) ==
    IF prev.gameOver THEN prev
    ELSE IF prev.turnSkillUsed THEN prev
    ELSE IF prev.doubleMoveRemaining > 0 THEN prev
    ELSE IF ~includes(prev.hands[prev.currentPlayer], skill) THEN prev
    ELSE IF skill = "double" THEN startDouble(prev, skill)
    ELSE IF target = <<>> THEN prev
    ELSE IF ~isValidSkillTarget(prev, skill, target[1][1], target[1][2]) THEN prev
    ELSE IF /\ skill = "warp"
            /\ isValidMove(prev.board, prev.currentPlayer, target[1][1], target[1][2],
                           NoProtection)
    THEN [applyTargetedSkill(prev, skill, target[1][1], target[1][2])
             EXCEPT !.board = applyMove(prev.board, prev.currentPlayer,
                                        target[1][1], target[1][2], NoProtection)]
    ELSE applyTargetedSkill(prev, skill, target[1][1], target[1][2])

\* The updater applySkill hands to setGameState. target is <<>> when the
\* optional argument is left out, << <<row, col>> >> otherwise.
applySkill(prev, skill, target) ==
    IF prev.gameOver THEN prev
    ELSE IF prev.turnSkillUsed THEN prev
    ELSE IF prev.doubleMoveRemaining > 0 THEN prev
    ELSE IF ~includes(prev.hands[prev.currentPlayer], skill) THEN prev
    ELSE IF skill = "double" THEN startDouble(prev, skill)
    ELSE IF target = <<>> THEN prev
    ELSE IF ~isValidSkillTarget(prev, skill, target[1][1], target[1][2]) THEN prev
    ELSE applyTargetedSkill(prev, skill, target[1][1], target[1][2])

resetGame(positions) == initialGameState(positions)

(***************************************************************************)
(* App: the computer player's decision functions.  They read the values of *)
(* one render: a session state s and the level.  The skill this file calls *)
(* 'block' is the session's "barrier".                                     *)
(***************************************************************************)
\* -Infinity, below every score the functions compute.
NegInfinity == 0 - 1000000

\* The overlay handed to the capture rule for `player`: the shield grid and
\* the region that is closed to that player in the session state.
getProtectionFor(s, player) == getFlipProtection(s, player, s.turnIndex)

\* block.black[row][col] || block.white[row][col]: the cell lies in a region
\* that is closed to one of the players.
isBlocked(s, row, col) ==
    /\ s.barrier # <<>>
    /\ s.barrier[1].active
    /\ <<row, col>> \in s.barrier[1].cells

\* The component's own isValidSkillTarget, on the current player of s.
appIsValidSkillTarget(s, skill, row, col) ==
    LET cell == s.board[row + 1][col + 1]
    IN CASE skill = "convert" ->
              cell # NULL /\ cell # s.currentPlayer /\ ~isCorner(row, col)
         [] skill = "warp" -> cell = NULL
         [] skill = "double" -> FALSE
         [] skill = "shield" ->
              cell = s.currentPlayer /\ <<row, col>> \notin s.shield /\ ~isCorner(row, col)
         [] skill = "barrier" ->
              cell = NULL /\ ~isCorner(row, col) /\ ~isBlocked(s, row, col)
         [] skill = "remove" -> cell # NULL /\ ~isCorner(row, col)
         [] OTHER -> FALSE

\* The cells in the order of the nested loops over r and c.
cellsInLoopOrder ==
    [n \in 1 .. (BOARD_SIZE * BOARD_SIZE) |->
        <<(n - 1) \div BOARD_SIZE, (n - 1) % BOARD_SIZE>>]

getValidMovesForBoard(s, boardState, player) ==
    LET protection == getProtectionFor(s, player)
        valid(p) == isValidMove(boardState, player, p[1], p[2], protection)
    IN SelectSeq(cellsInLoopOrder, valid)

getValidMovesFor(s, player) == getValidMovesForBoard(s, s.board, player)

isEdge(row, col) ==
    row = 0 \/ row = BOARD_SIZE - 1 \/ col = 0 \/ col = BOARD_SIZE - 1

scoreMove(s, player, row, col) ==
    LET flips == Len(getFlippableDiscs(s.board, player, row, col,
                                       getProtectionFor(s, player)))
    IN flips * 10 + (IF isCorner(row, col) THEN 80
                     ELSE IF isEdge(row, col) THEN 20 ELSE 0)

\* +weight for a cell of `player`, -weight for a cell of the opponent.
cellWeight(boardState, player, p, weight) ==
    IF boardState[p[1] + 1][p[2] + 1] = player THEN weight
    ELSE IF boardState[p[1] + 1][p[2] + 1] = Opponent(player) THEN 0 - weight
    ELSE 0

RECURSIVE sumWeights(_, _, _, _)
sumWeights(boardState, player, cells, weight) ==
    IF cells = {} THEN 0
    ELSE LET p == CHOOSE q \in cells : TRUE
         IN cellWeight(boardState, player, p, weight)
            + sumWeights(boardState, player, cells \ {p}, weight)

evaluateBoard(s, boardState, player) ==
    LET DiscScore(counts) == IF player = "black" THEN counts.black - counts.white
                             ELSE counts.white - counts.black
        cornerScore ==
            sumWeights(boardState, player,
                       {p \in Cells : isCorner(p[1], p[2])}, 25)
        edgeScore ==
            sumWeights(boardState, player,
                       {p \in Cells : isEdge(p[1], p[2]) /\ ~isCorner(p[1], p[2])}, 2)
        mobility == [p \in Players |-> Len(getValidMovesForBoard(s, boardState, p))]
        mobilityScore == (mobility[player] - mobility[Opponent(player)]) * 3
    IN DiscScore(getScore(boardState)) + cornerScore + edgeScore + mobilityScore

\* The index a loop "if (score > bestScore) { bestScore = score; best = ... }"
\* that starts below every score ends with: the first one of the greatest
\* score.
firstBest(scores) ==
    CHOOSE i \in 1 .. Len(scores) :
        /\ \A j \in 1 .. Len(scores) : scores[j] <= scores[i]
        /\ \A j \in 1 .. (i - 1) : scores[j] < scores[i]

\* The score the 'hard' level gives a move, doubled: the mean of the board
\* value after the move and of the worst board value after a reply, or the
\* board value plus 12 when the opponent has no reply.
hardScoreTwice(s, player, move) ==
    LET opponent == Opponent(player)
        Least(scores) == CHOOSE v \in {scores[i] : i \in DOMAIN scores} :
                             \A i \in DOMAIN scores : v <= scores[i]
        ReplyScores(nextBoard, opponentMoves) ==
            [i \in 1 .. Len(opponentMoves) |->
                evaluateBoard(s, applyMove(nextBoard, opponent,
                                           opponentMoves[i][1], opponentMoves[i][2],
                                           getProtectionFor(s, opponent)),
                              player)]
        Against(nextBoard, score, opponentMoves) ==
            IF Len(opponentMoves) > 0
            THEN score + Least(ReplyScores(nextBoard, opponentMoves))
            ELSE 2 * (score + 12)
        After(nextBoard) ==
            Against(nextBoard, evaluateBoard(s, nextBoard, player),
                    getValidMovesForBoard(s, nextBoard, opponent))
    IN After(applyMove(s.board, player, move[1], move[2], getProtectionFor(s, player)))

\* Mutant: the move is taken from the placements open to the opponent.
chooseMove_OpponentMoves(s, level, player, pick) ==
    LET Among(moves) == IF Len(moves) = 0 THEN <<>> ELSE <<moves[1]>>
    IN Among(getValidMovesFor(s, Opponent(player)))

\* chooseMove(player) at `level`; pick is the value of
\* Math.floor(Math.random() * moves.length) when the level draws one.  The
\* result is <<>> for null and <<move>> otherwise.
chooseMove(s, level, player, pick) ==
    LET Scores(moves) ==
            [i \in 1 .. Len(moves) |->
                IF level = "normal" THEN scoreMove(s, player, moves[i][1], moves[i][2])
                ELSE hardScoreTwice(s, player, moves[i])]
        Among(moves) ==
            IF Len(moves) = 0 THEN <<>>
            ELSE IF level = "easy" THEN <<moves[pick + 1]>>
            ELSE <<moves[firstBest(Scores(moves))]>>
    IN Among(getValidMovesFor(s, player))

\* The score evaluateSkillTargets gives cell (r, c) as a target of `skill`,
\* NegInfinity where the loop body takes `continue`.
targetScore(s, player, skill, r, c) ==
    LET cell == s.board[r + 1][c + 1]
        opponent == Opponent(player)
    IN CASE skill = "convert" ->
              IF cell # opponent \/ isCorner(r, c) THEN NegInfinity
              ELSE 25 + (IF isEdge(r, c) THEN 20 ELSE 0)
         [] skill = "remove" ->
              IF cell # opponent \/ isCorner(r, c) THEN NegInfinity
              ELSE 20 + (IF isEdge(r, c) THEN 15 ELSE 0)
         [] skill = "shield" ->
              IF cell # player \/ isCorner(r, c) \/ <<r, c>> \in s.shield
              THEN NegInfinity
              ELSE 2 * Cardinality({n \in buildBarrierCells(r, c) :
                                       s.board[n[1] + 1][n[2] + 1] = opponent})
         [] skill = "barrier" ->
              IF cell # NULL \/ isCorner(r, c) \/ isBlocked(s, r, c) THEN NegInfinity
              ELSE IF ~isValidMove(s.board, opponent, r, c, getProtectionFor(s, opponent))
              THEN NegInfinity
              ELSE 25 + (IF isEdge(r, c) THEN 10 ELSE 0)
         [] skill = "warp" ->
              IF cell # NULL THEN NegInfinity
              ELSE 8 + (IF isCorner(r, c) THEN 80 ELSE IF isEdge(r, c) THEN 20 ELSE 0)
                     + (IF posKey(r, c) \in DOMAIN s.skillTiles /\ Len(s.hands[player]) < 2
                        THEN 10 ELSE 0)
         [] OTHER -> NegInfinity

\* evaluateSkillTargets(player, skill): <<>> for null, <<[target, score]>>
\* otherwise.
evaluateSkillTargets(s, player, skill) ==
    LET At(scores, best) ==
            IF scores[best] = NegInfinity \/ scores[best] <= 0 THEN <<>>
            ELSE <<[target |-> cellsInLoopOrder[best], score |-> scores[best]]>>
        Best(scores) == At(scores, firstBest(scores))
    IN Best([n \in 1 .. Len(cellsInLoopOrder) |->
                targetScore(s, player, skill,
                            cellsInLoopOrder[n][1], cellsInLoopOrder[n][2])])

\* (sorted[0] ?? 0) + (sorted[1] ?? 0) of the scores sorted downwards.
topTwo(scores) ==
    IF Len(scores) = 0 THEN 0
    ELSE LET first == firstBest(scores)
             rest == [i \in 1 .. (Len(scores) - 1) |->
                         IF i < first THEN scores[i] ELSE scores[i + 1]]
         IN scores[first] + (IF Len(rest) = 0 THEN 0 ELSE rest[firstBest(rest)])

\* The loop of chooseSkillAction over the skills of the hand from index i
\* on, each skill taken at its first occurrence; best is the record
\* [skill, target, score] kept so far, skill NULL while none is kept.
RECURSIVE bestSkillFrom(_, _, _, _, _, _)
bestSkillFrom(s, player, hand, i, moveScores, best) ==
    IF i > Len(hand) THEN best
    ELSE LET skill == hand[i]
             seenBefore == \E j \in 1 .. (i - 1) : hand[j] = skill
             Double(score) ==
                 IF score > best.score
                 THEN [skill |-> skill, target |-> <<>>, score |-> score]
                 ELSE best
             Targeted(evaluated) ==
                 IF evaluated = <<>> THEN best
                 ELSE IF evaluated[1].score > best.score
                 THEN [skill |-> skill, target |-> <<evaluated[1].target>>,
                       score |-> evaluated[1].score]
                 ELSE best
             kept ==
                 IF seenBefore THEN best
                 ELSE IF skill = "double"
                 THEN IF Len(moveScores) < 2 THEN best
                      ELSE Double(topTwo(moveScores) + 15)
                 ELSE Targeted(evaluateSkillTargets(s, player, skill))
         IN bestSkillFrom(s, player, hand, i + 1, moveScores, kept)

\* chooseSkillAction(player) at `level`; aboveChance is the outcome of
\* Math.random() > chance when the level draws one.  The result is <<>> for
\* null and <<[skill, target]>> otherwise, target <<>> when undefined.
chooseSkillAction(s, level, player, aboveChance) ==
    LET Held(best, bestMoveScore) ==
            CASE level = "easy" -> aboveChance /\ bestMoveScore > 0
              [] level = "normal" ->
                   best.score < bestMoveScore + 5 /\ bestMoveScore > 0
              [] OTHER -> best.score < bestMoveScore - 5 /\ bestMoveScore > 0
        Arbitrate(best, bestMoveScore) ==
            IF best.skill = NULL THEN <<>>
            ELSE IF Held(best, bestMoveScore) THEN <<>>
            ELSE <<[skill |-> best.skill, target |-> best.target]>>
        Against(moveScores) ==
            Arbitrate(bestSkillFrom(s, player, s.hands[player], 1, moveScores,
                                    [skill |-> NULL, target |-> <<>>,
                                     score |-> NegInfinity]),
                      IF Len(moveScores) > 0 THEN moveScores[firstBest(moveScores)]
                      ELSE NegInfinity)
        ScoresOf(validMoves) ==
            [i \in 1 .. Len(validMoves) |->
                scoreMove(s, player, validMoves[i][1], validMoves[i][2])]
    IN IF s.turnSkillUsed \/ s.doubleMoveRemaining > 0 THEN <<>>
       ELSE IF Len(s.hands[player]) = 0 THEN <<>>
       ELSE Against(ScoresOf(getValidMovesFor(s, player)))

(***************************************************************************)
(* The session as a state machine                                          *)
(***************************************************************************)
\* Outcomes of the shuffle in createRandomSkillTiles: the first eight
\* positions, in SKILL_POOL order (convert, convert, warp, double, shield,
\* barrier, remove, remove).  The first puts tiles next to the opening discs,
\* the second far from them.
NearShuffle ==
    << <<2, 2>>, <<4, 2>>, <<4, 5>>, <<2, 3>>, <<5, 4>>, <<3, 2>>, <<2, 4>>, <<5, 5>> >>

FarShuffle ==
    << <<0, 1>>, <<7, 6>>, <<0, 3>>, <<1, 0>>, <<6, 7>>, <<7, 2>>, <<0, 5>>, <<5, 0>> >>

Shuffles == {NearShuffle, FarShuffle}

\* The outcomes of the shuffle the sessions of the App in CPU mode start
\* from: NearShuffle, and one that puts the convert and the remove tiles on
\* the four placements Black can open with and the other tiles far from the
\* opening discs.  Between them every skill type lies on an opening
\* placement.
CpuShuffles ==
    {NearShuffle,
     << <<2, 3>>, <<3, 2>>, <<0, 3>>, <<1, 0>>, <<6, 7>>, <<7, 2>>, <<4, 5>>, <<5, 4>> >>}

Corners == {p \in Cells : isCorner(p[1], p[2])}

Targets == {<<>>} \cup {<<p>> : p \in InputCoords \X InputCoords}

\* No accepted call yet at the current turn index, none at the one before.
\* The App as mounted, with no CPU timer set and none fired: useState('pvp'),
\* useState('white'), useState('normal'), useRef(null), useRef(false).
AppIdle ==
    /\ app = [mode |-> "pvp", cpuPlayer |-> "white", cpuLevel |-> "normal",
              cpuTimerRef |-> <<>>, cpuBusyRef |-> FALSE, hasCleanup |-> FALSE,
              pendingSkill |-> <<>>, pendingTarget |-> <<>>, pendingUpdate |-> <<>>,
              effectPending |-> FALSE]
    /\ timers = {}
    /\ cpuIssued = <<>>

\* The base-variant session as constructed, with no call made to it.
BaseIdle == baseSession = [state |-> baseInitialGameState, outcome |-> "none"]

NoCalls == [skills |-> 0, placements |-> 0, before |-> [skills |-> 0, placements |-> 0]]

Init ==
    /\ \E positions \in Shuffles : gameState = initialGameState(positions)
    /\ lastCall = [op |-> "init", outcome |-> "none"]
    /\ turnLimit = MaxTurnIndex
    /\ turnCalls = NoCalls
    /\ barrierLog = <<>>
    /\ flipInput = [board |-> createInitialBoard, protection |-> NoProtection]
    /\ flipCall = <<>>
    /\ AppIdle
    /\ BaseIdle

\* An intent is accepted only below the turn bound of the model.
WithinBound == gameState.turnIndex < turnLimit

\* turnCalls after an accepted call of `op` that set gameState': the count
\* starts again when the call changed turnIndex, and `before` then keeps the
\* count of the turn index just left, this call included.
CallsAfter(op) ==
    LET counted ==
            IF op = "applySkill"
            THEN [skills |-> turnCalls.skills + 1, placements |-> turnCalls.placements]
            ELSE [skills |-> turnCalls.skills, placements |-> turnCalls.placements + 1]
    IN IF gameState'.turnIndex # gameState.turnIndex
       THEN [skills |-> 0, placements |-> 0, before |-> counted]
       ELSE [skills |-> counted.skills, placements |-> counted.placements,
             before |-> turnCalls.before]

\* barrierLog after an accepted call that set gameState' and activated no
\* barrier: the other player has completed a turn when turnIndex changes
\* while that player is the current player.
BarrierLogAfter ==
    IF /\ barrierLog # <<>>
       /\ gameState.currentPlayer = Opponent(barrierLog[1].owner)
       /\ gameState'.turnIndex # gameState.turnIndex
    THEN <<[barrierLog[1] EXCEPT !.opponentTurnTaken = TRUE]>>
    ELSE barrierLog

\* makeMove(row, col) returns a new state.
MakeMoveAccepted(row, col) ==
    /\ WithinBound
    /\ ~makeMoveThrows(gameState, row, col)
    /\ LET next == makeMove(gameState, row, col)
       IN next # gameState /\ gameState' = next
    /\ lastCall' = [op |-> "makeMove", outcome |-> "accepted"]
    /\ turnCalls' = CallsAfter("makeMove")
    /\ barrierLog' = BarrierLogAfter
    /\ UNCHANGED <<baseSession, flipInput, flipCall, turnLimit>>
    /\ UNCHANGED appVars

\* makeMove(row, col) returns prev, for some (row, col).
MakeMoveRejected ==
    /\ TRUE = \E row \in InputCoords, col \in InputCoords :
                 /\ ~makeMoveThrows(gameState, row, col)
                 /\ makeMove(gameState, row, col) = gameState
    /\ gameState' = gameState
    /\ lastCall' = [op |-> "makeMove", outcome |-> "rejected"]
    /\ UNCHANGED <<baseSession, flipInput, flipCall, turnLimit, turnCalls, barrierLog>>
    /\ UNCHANGED appVars

\* makeMove(row, col) raises, for some (row, col): no state is set.
MakeMoveThrows ==
    /\ TRUE = \E row \in InputCoords, col \in InputCoords :
                 makeMoveThrows(gameState, row, col)
    /\ gameState' = gameState
    /\ lastCall' = [op |-> "makeMove", outcome |-> "threw"]
    /\ UNCHANGED <<baseSession, flipInput, flipCall, turnLimit, turnCalls, barrierLog>>
    /\ UNCHANGED appVars

\* applySkill(skill, target) returns a new state.
ApplySkillAccepted(skill, target) ==
    /\ WithinBound
    /\ LET next == applySkill(gameState, skill, target)
       IN next # gameState /\ gameState' = next
    /\ lastCall' = [op |-> "applySkill", outcome |-> "accepted"]
    /\ turnCalls' = CallsAfter("applySkill")
    /\ barrierLog' =
          IF skill = "barrier"
          THEN <<[owner |-> gameState.currentPlayer, cell |-> target[1],
                  turn |-> gameState.turnIndex, opponentTurnTaken |-> FALSE]>>
          ELSE BarrierLogAfter
    /\ UNCHANGED <<baseSession, flipInput, flipCall, turnLimit>>
    /\ UNCHANGED appVars

\* applySkill(skill, target) returns prev, for some skill and target.
ApplySkillRejected ==
    /\ TRUE = \E skill \in SkillTypes, target \in Targets :
                 applySkill(gameState, skill, target) = gameState
    /\ gameState' = gameState
    /\ lastCall' = [op |-> "applySkill", outcome |-> "rejected"]
    /\ UNCHANGED <<baseSession, flipInput, flipCall, turnLimit, turnCalls, barrierLog>>
    /\ UNCHANGED appVars

ResetGame(positions) ==
    /\ gameState' = resetGame(positions)
    /\ lastCall' = [op |-> "resetGame", outcome |-> "accepted"]
    /\ turnLimit' = MaxTurnIndex
    /\ turnCalls' = NoCalls
    /\ barrierLog' = <<>>
    /\ UNCHANGED <<baseSession, flipInput, flipCall>>
    /\ UNCHANGED appVars

Next ==
    \/ \E row \in InputCoords, col \in InputCoords : MakeMoveAccepted(row, col)
    \/ MakeMoveRejected
    \/ MakeMoveThrows
    \/ \E skill \in SkillTypes, target \in Targets : ApplySkillAccepted(skill, target)
    \/ ApplySkillRejected
    \/ \E positions \in Shuffles : ResetGame(positions)

Spec == Init /\ [][Next]_vars

(***************************************************************************)
(* Games taken up in mid-play: the session is first brought to a later     *)
(* state by a fixed script of accepted intents, run through the updaters   *)
(* from the initial state, and then followed for a few turns under every   *)
(* intent.                                                                 *)
(***************************************************************************)
Place(row, col) == [op |-> "makeMove", skill |-> "none", target |-> << <<row, col>> >>]

Use(skill, row, col) == [op |-> "applySkill", skill |-> skill, target |-> << <<row, col>> >>]

\* setGameState(updater) for one intent.
dispatch(state, intent) ==
    IF intent.op = "makeMove"
    THEN makeMove(state, intent.target[1][1], intent.target[1][2])
    ELSE applySkill(state, intent.skill, intent.target)

RECURSIVE replay(_, _)
replay(state, script) ==
    IF script = <<>> THEN state
    ELSE replay(dispatch(state, Head(script)), Tail(script))

\* Scripts from the initial state with the tiles of NearShuffle, and the
\* number of turns each is followed.  The first leaves Black to move at
\* turn 2 with a barrier in hand; the second leaves Black to move at turn 4
\* holding warp and double, with one placement that leaves Black no second
\* one; the third leaves White to move at turn 5 holding two converts, with
\* a placement on a tile open to it; the fourth leaves Black to move at turn
\* 2 holding double, with two placements open in a row; the fifth leaves
\* White to move at turn 3 holding remove, facing a shielded Black disc.
MidGames ==
    {[script |-> <<Place(3, 2), Place(2, 4)>>, turns |-> MaxMidTurns],
     [script |-> <<Place(2, 3), Place(2, 4)>>, turns |-> MaxMidTurns - 1],
     [script |-> <<Place(4, 5), Place(5, 5), Place(2, 3), Use("remove", 3, 4)>>,
      turns |-> MaxMidTurns - 1],
     [script |-> <<Place(2, 3), Place(2, 2), Place(2, 1), Place(4, 2), Place(3, 2)>>,
      turns |-> MaxMidTurns - 1],
     [script |-> <<Place(5, 4), Place(5, 5), Use("shield", 3, 4)>>,
      turns |-> MaxMidTurns - 1]}

InitMid ==
    /\ \E game \in MidGames :
          /\ gameState = replay(initialGameState(NearShuffle), game.script)
          /\ lastCall = [op |-> game.script[Len(game.script)].op, outcome |-> "accepted"]
          /\ turnLimit = gameState.turnIndex + game.turns
    /\ turnCalls = NoCalls
    /\ barrierLog = <<>>
    /\ flipInput = [board |-> createInitialBoard, protection |-> NoProtection]
    /\ flipCall = <<>>
    /\ AppIdle
    /\ BaseIdle

NextMid ==
    \/ \E row \in InputCoords, col \in InputCoords : MakeMoveAccepted(row, col)
    \/ MakeMoveRejected
    \/ MakeMoveThrows
    \/ \E skill \in SkillTypes, target \in Targets : ApplySkillAccepted(skill, target)
    \/ ApplySkillRejected

SpecMid == InitMid /\ [][NextMid]_vars

(***************************************************************************)
(* The skill-variant session and the base-variant session side by side:    *)
(* every makeMove call is made to both, and applySkill is never called.    *)
(***************************************************************************)
\* The turns a game is followed from the opening position in both sessions.
MaxBaseTurns == 3

RECURSIVE baseReplay(_, _)
baseReplay(state, script) ==
    IF script = <<>> THEN state
    ELSE baseReplay(baseMakeMove(state, Head(script).target[1][1],
                                 Head(script).target[1][2]),
                    Tail(script))

\* Scripts of placements from the opening position.  The second is two
\* placements short of the first position in which the player to move next
\* has no placement and the mover goes again; the third is two placements
\* short of the earliest end of a game.
BaseGames ==
    {[script |-> <<>>, turns |-> MaxBaseTurns],
     [script |-> <<Place(2, 3), Place(2, 2), Place(2, 1), Place(1, 1), Place(4, 5),
                   Place(2, 0)>>,
      turns |-> MaxBaseTurns - 1],
     [script |-> <<Place(2, 3), Place(2, 2), Place(2, 1), Place(1, 3), Place(0, 4),
                   Place(5, 3), Place(6, 3)>>,
      turns |-> MaxBaseTurns - 1]}

InitBase ==
    /\ \E game \in BaseGames :
          /\ gameState = replay(initialGameState(NearShuffle), game.script)
          /\ baseSession = [state |-> baseReplay(baseInitialGameState, game.script),
                            outcome |-> IF game.script = <<>> THEN "none" ELSE "accepted"]
          /\ lastCall = IF game.script = <<>>
                        THEN [op |-> "init", outcome |-> "none"]
                        ELSE [op |-> "makeMove", outcome |-> "accepted"]
          /\ turnLimit = gameState.turnIndex + game.turns
    /\ turnCalls = NoCalls
    /\ barrierLog = <<>>
    /\ flipInput = [board |-> createInitialBoard, protection |-> NoProtection]
    /\ flipCall = <<>>
    /\ AppIdle

\* What a caller of the updater sees: it raised, returned prev or returned a
\* new state.
callOutcome(throws, prev, next) ==
    IF throws THEN "threw" ELSE IF next = prev THEN "rejected" ELSE "accepted"

\* makeMove(row, col) is called on the skill-variant session.
SkillSessionMakeMove(row, col) ==
    \E next \in {IF makeMoveThrows(gameState, row, col) THEN gameState
                 ELSE makeMove(gameState, row, col)} :
       /\ next # gameState => WithinBound
       /\ gameState' = next
       /\ lastCall' = [op |-> "makeMove",
                       outcome |-> callOutcome(makeMoveThrows(gameState, row, col),
                                               gameState, next)]
       /\ turnCalls' = IF next = gameState THEN turnCalls ELSE CallsAfter("makeMove")

\* makeMove(row, col) is called on the base-variant session.
BaseSessionMakeMove(row, col) ==
    \E next \in {IF baseMakeMoveThrows(baseSession.state, row, col) THEN baseSession.state
                 ELSE baseMakeMove(baseSession.state, row, col)} :
       baseSession' =
           [state |-> next,
            outcome |-> callOutcome(baseMakeMoveThrows(baseSession.state, row, col),
                                    baseSession.state, next)]

\* The same call is made to both sessions.
MakeMoveInBoth(row, col) ==
    /\ SkillSessionMakeMove(row, col)
    /\ BaseSessionMakeMove(row, col)
    /\ UNCHANGED <<flipInput, flipCall, turnLimit, barrierLog>>
    /\ UNCHANGED appVars

\* resetGame() is called on both sessions.
ResetGameInBoth ==
    /\ gameState' = resetGame(NearShuffle)
    /\ lastCall' = [op |-> "resetGame", outcome |-> "accepted"]
    /\ baseSession' = [state |-> baseResetGame, outcome |-> "accepted"]
    /\ turnLimit' = MaxBaseTurns
    /\ turnCalls' = NoCalls
    /\ barrierLog' = <<>>
    /\ UNCHANGED <<flipInput, flipCall>>
    /\ UNCHANGED appVars

NextBase ==
    \/ \E row \in InputCoords, col \in InputCoords : MakeMoveInBoth(row, col)
    \/ ResetGameInBoth

SpecBase == InitBase /\ [][NextBase]_vars

(***************************************************************************)
(* A whole game: the players make a fixed sequence of placements down to a *)
(* position with three empty cells and skills in hand, and from there      *)
(* every placement and the skills on a few targets are followed, with no   *)
(* bound on the turn index, until the game is over.                        *)
(***************************************************************************)
\* 57 placements from the initial state with the tiles of FarShuffle, each
\* accepted.  They leave White to move at turn 57 holding barrier and
\* remove, Black's hand empty, the cells (0, 5), (0, 7) and (6, 7) empty, and
\* the remove tile of (0, 5) and the shield tile of (6, 7) on the board.
EndGameScript ==
    <<Place(5, 4), Place(5, 3), Place(5, 2), Place(6, 3), Place(4, 2), Place(4, 1),
      Place(6, 1), Place(4, 5), Place(7, 4), Place(2, 4), Place(2, 3), Place(7, 2),
      Place(2, 5), Place(1, 5), Place(5, 5), Place(3, 5), Place(2, 2), Place(6, 5),
      Place(2, 6), Place(1, 2), Place(0, 2), Place(5, 0), Place(7, 5), Place(2, 7),
      Place(1, 3), Place(6, 2), Place(3, 0), Place(6, 4), Place(3, 6), Place(1, 4),
      Place(3, 2), Place(7, 6), Place(0, 6), Place(1, 6), Place(7, 1), Place(5, 1),
      Place(5, 6), Place(3, 7), Place(1, 7), Place(0, 3), Place(4, 0), Place(0, 1),
      Place(4, 6), Place(0, 4), Place(3, 1), Place(2, 0), Place(1, 1), Place(2, 1),
      Place(7, 3), Place(5, 7), Place(0, 0), Place(1, 0), Place(6, 6), Place(7, 0),
      Place(6, 0), Place(7, 7), Place(4, 7)>>

\* No accepted intent is made at this turn index or a later one: every
\* accepted intent but a remove fills a cell or leaves the board as it is,
\* and at most Len(SKILL_POOL) skills are ever used.
TurnIndexCeiling == BOARD_SIZE * BOARD_SIZE + 2 * Len(SKILL_POOL)

InitEnd ==
    /\ gameState = initialGameState(FarShuffle)
    /\ lastCall = [op |-> "init", outcome |-> "none"]
    /\ turnLimit = TurnIndexCeiling
    /\ turnCalls = NoCalls
    /\ barrierLog = <<>>
    /\ flipInput = [board |-> createInitialBoard, protection |-> NoProtection]
    /\ flipCall = <<>>
    /\ AppIdle
    /\ BaseIdle

\* The scripted part of the game is still going on.
OnScript == gameState.turnIndex < Len(EndGameScript)

\* An accepted placement: the one of the script while the script lasts, any
\* afterwards.
EndMakeMove(row, col) ==
    /\ OnScript => <<row, col>> = EndGameScript[gameState.turnIndex + 1].target[1]
    /\ MakeMoveAccepted(row, col)

\* The cells the skill activations at the end of the game are aimed at, in
\* the order in which the model takes them up: two centre cells, the three
\* cells the script leaves empty, then further cells around the centre.
EndTargetOrder ==
    << <<3, 3>>, <<3, 4>>, <<0, 5>>, <<0, 7>>, <<6, 7>>, <<4, 4>>, <<4, 3>>, <<2, 2>> >>

\* The skill activations followed at the end of the game are those with no
\* target and those aimed at one of the first MaxEndTargets cells of
\* EndTargetOrder.
EndTargets ==
    {<<>>} \cup {<<EndTargetOrder[i]>> : i \in 1 .. MaxEndTargets}

\* An accepted skill activation, once the script is over.
EndApplySkill(skill, target) ==
    /\ ~OnScript
    /\ ApplySkillAccepted(skill, target)

NextEnd ==
    \/ \E row \in Coords, col \in Coords : EndMakeMove(row, col)
    \/ MakeMoveRejected
    \/ MakeMoveThrows
    \/ \E skill \in SkillTypes, target \in EndTargets : EndApplySkill(skill, target)
    \/ ApplySkillRejected

\* An intent can be accepted: the game is not over, so that the current
\* player has a placement (advanceTurn, and stillHasMoves in a double
\* sequence), and the turn index is below the ceiling.
AcceptedIntentEnabled == ~gameState.gameOver /\ WithinBound

\* The step is one of EndMakeMove or EndApplySkill.
AcceptedIntentMade == lastCall'.outcome = "accepted" /\ gameState' # gameState

\* The players keep issuing legal intents: an accepted intent that stays
\* possible is eventually made (weak fairness of the accepted intents,
\* written out).
SpecEnd ==
    /\ InitEnd
    /\ [][NextEnd]_vars
    /\ ([]<>~AcceptedIntentEnabled \/ []<><<AcceptedIntentMade>>_vars)

(***************************************************************************)
(* Session start and reset over many outcomes of the shuffle.              *)
(***************************************************************************)
\* Math.random() as a sequence of fractions x / 65536: the n-th numerator
\* of the sequence that starts after `seed`.
RECURSIVE randomNumerator(_, _)
randomNumerator(seed, n) ==
    IF n = 0 THEN seed
    ELSE (25173 * randomNumerator(seed, n - 1) + 13849) % 65536

\* Outcomes of Math.floor(Math.random() * (i + 1)) for the indices of the
\* shuffle loop, which runs from the last index down: one outcome for each
\* seed.
Draws ==
    {[i \in 1 .. (Len(positionList) - 1) |->
         (randomNumerator(seed, Len(positionList) - i) * (i + 1)) \div 65536] :
        seed \in 0 .. MaxSeed}

InitReset ==
    /\ \E random \in Draws : gameState = initialGameState(shuffledPositions(random))
    /\ lastCall = [op |-> "init", outcome |-> "none"]
    /\ turnLimit = 1
    /\ turnCalls = NoCalls
    /\ barrierLog = <<>>
    /\ flipInput = [board |-> createInitialBoard, protection |-> NoProtection]
    /\ flipCall = <<>>
    /\ AppIdle
    /\ BaseIdle

NextReset ==
    \/ \E row \in Coords, col \in Coords : MakeMoveAccepted(row, col)
    \/ \E random \in Draws : ResetGame(shuffledPositions(random))

SpecReset == InitReset /\ [][NextReset]_vars

(***************************************************************************)
(* App in CPU mode: the effect that sets the CPU timer, the timer's        *)
(* callback, and the handlers of the mode panel, the board, the hands and  *)
(* the result panel.  A handler, the render that follows it and the        *)
(* effects of that render are one step: the handler runs in a discrete     *)
(* event, whose updates are rendered and whose effects are run before the  *)
(* event is over.  The timer callback only enqueues the update of the      *)
(* session state (pendingUpdate); the render that applies and commits it   *)
(* is a later step, and the effect of that render (effectPending) a third. *)
(* A handler that sets state while the update is enqueued has it rendered  *)
(* in its own render: the updates of a discrete event and those enqueued   *)
(* from a timer are rendered together (React 19).                          *)
(* pendingSkill and pendingTarget are <<>> for null; they are no           *)
(* dependency of the effect, so a handler that sets only them causes no    *)
(* run of it.                                                              *)
(***************************************************************************)
\* The id window.setTimeout returns: a positive integer other than those in
\* `used`, the ids of the timers that are pending or have just fired or been
\* cleared.
newTimerId(used) ==
    CHOOSE id \in 1 .. (Cardinality(used) + 1) :
        /\ id \notin used
        /\ \A smaller \in 1 .. (id - 1) : smaller \in used

\* Mutant: the cleanup leaves the timeout set.
cpuEffectCleanup_KeepsTimeout(a, ts) ==
    IF ~a.hasCleanup THEN [app |-> a, timers |-> ts]
    ELSE [app |-> [a EXCEPT !.cpuTimerRef = <<>>, !.cpuBusyRef = FALSE,
                            !.hasCleanup = FALSE],
          timers |-> ts]

\* The cleanup function the effect returned, if it returned one.
cpuEffectCleanup(a, ts) ==
    IF ~a.hasCleanup THEN [app |-> a, timers |-> ts]
    ELSE [app |-> [a EXCEPT !.cpuTimerRef = <<>>, !.cpuBusyRef = FALSE,
                            !.hasCleanup = FALSE],
          timers |-> IF a.cpuTimerRef # <<>>
                     THEN {t \in ts : t.id # a.cpuTimerRef[1]}
                     ELSE ts]

\* Mutant: the effect sets no timer.
cpuEffectBody_NoTimer(a, ts, s, used) == [app |-> a, timers |-> ts]

\* The body of the effect in a render with session state s.  The callback
\* closes over chooseSkillAction and chooseMove of that render, hence over
\* s and cpuLevel, and over cpuPlayer.
cpuEffectBody(a, ts, s, used) ==
    IF a.mode # "cpu" \/ s.gameOver \/ s.currentPlayer # a.cpuPlayer \/ a.cpuBusyRef
    THEN [app |-> a, timers |-> ts]
    ELSE [app |-> [a EXCEPT !.cpuBusyRef = TRUE, !.cpuTimerRef = <<newTimerId(used)>>,
                            !.hasCleanup = TRUE],
          timers |-> ts \cup {[id |-> newTimerId(used), snapshot |-> s,
                               cpuPlayer |-> a.cpuPlayer,
                               cpuLevel |-> a.cpuLevel]}]

\* A render in which a dependency of the effect has changed: the cleanup of
\* the last run, then the body.
cpuEffect(a, ts, s, used) ==
    LET Then(cleaned) == cpuEffectBody(cleaned.app, cleaned.timers, s, used)
    IN Then(cpuEffectCleanup(a, ts))

isCpuTurn(a, s) == a.mode = "cpu" /\ s.currentPlayer = a.cpuPlayer

hasTargetForSkill(s, skill) ==
    IF skill = "double"
    THEN hasValidMoves(s.board, s.currentPlayer, getProtectionFor(s, s.currentPlayer))
    ELSE \E p \in Cells : appIsValidSkillTarget(s, skill, p[1], p[2])

\* canUseSkill(skill) in a render with session state s and pendingSkill
\* `pending`.
canUseSkill(s, pending, skill) ==
    /\ ~s.gameOver
    /\ s.doubleMoveRemaining = 0
    /\ ~s.turnSkillUsed
    /\ pending = <<>> \/ pending = <<skill>>
    /\ includes(s.hands[s.currentPlayer], skill)
    /\ hasTargetForSkill(s, skill)

SKILL_REQUIRES_TARGET(skill) == skill # "double"

\* passTurn() of the session: the turn advances unless the game is over.
passTurn(prev) == IF prev.gameOver THEN prev ELSE advanceTurn(prev)

\* The session variables after setGameState has produced `next` for the
\* intent `op`.
SessionStep(op, skill, target, next) ==
    /\ gameState' = next
    /\ lastCall' = [op |-> op,
                    outcome |-> IF next # gameState THEN "accepted" ELSE "rejected"]
    /\ turnCalls' = IF next = gameState THEN turnCalls
                    ELSE IF op = "passTurn" THEN NoCalls
                    ELSE CallsAfter(op)
    /\ barrierLog' =
          IF next = gameState THEN barrierLog
          ELSE IF op = "applySkill" /\ skill = "barrier"
          THEN <<[owner |-> gameState.currentPlayer, cell |-> target[1],
                  turn |-> gameState.turnIndex, opponentTurnTaken |-> FALSE]>>
          ELSE BarrierLogAfter
    /\ UNCHANGED <<baseSession, flipInput, flipCall, turnLimit>>

\* The session variables after resetGame().
SessionReset(positions) ==
    /\ gameState' = resetGame(positions)
    /\ lastCall' = [op |-> "resetGame", outcome |-> "accepted"]
    /\ turnCalls' = NoCalls
    /\ barrierLog' = <<>>
    /\ turnLimit' = MaxCpuTurnIndex
    /\ UNCHANGED <<baseSession, flipInput, flipCall>>

\* The ids of the timers pending before a step.
TimerIds == {t.id : t \in timers}

\* The effect of the last commit runs, if it has not run yet: the cleanup of
\* the run before, then the body on the session state as committed.
\* window.setTimeout returns the id of no timer that is pending, nor that
\* of the timer that fired last.
flushPassiveEffects ==
    IF app.effectPending
    THEN cpuEffect([app EXCEPT !.effectPending = FALSE], timers, gameState,
                   TimerIds \cup {cpuIssued[i].timer.id : i \in DOMAIN cpuIssued})
    ELSE [app |-> app, timers |-> timers]

\* Mutant: the effect runs again only when the session state has changed
\* in value.
Render_OnSessionChangeOnly(a) ==
    IF gameState' = gameState THEN app' = a /\ timers' = timers
    ELSE \E ran \in {cpuEffect([a EXCEPT !.effectPending = FALSE], timers, gameState',
                                TimerIds)} :
            app' = ran.app /\ timers' = ran.timers

\* The render after a handler left the component values `a` and the session
\* state gameState': a dependency of the effect has changed.  An effect
\* still pending from the commit before is run first; the timer it may set
\* is cleared by the cleanup this render's run of the effect begins with, so
\* that the refs and the timers come out as after one run.
Render(a) ==
    \E ran \in {cpuEffect([a EXCEPT !.effectPending = FALSE], timers, gameState',
                           TimerIds)} :
        app' = ran.app /\ timers' = ran.timers

\* setPendingSkill(null); setPendingTarget(null).
NoPending(a) == [a EXCEPT !.pendingSkill = <<>>, !.pendingTarget = <<>>]

handleModeChange(next, positions) ==
    /\ next # app.mode
    /\ SessionReset(positions)
    /\ Render(NoPending([app EXCEPT !.mode = next, !.pendingUpdate = <<>>]))
    /\ cpuIssued' = <<>>

handleCpuPlayerChange(next, positions) ==
    /\ app.mode = "cpu"
    /\ next # app.cpuPlayer
    /\ SessionReset(positions)
    /\ Render(NoPending([app EXCEPT !.cpuPlayer = next, !.pendingUpdate = <<>>]))
    /\ cpuIssued' = <<>>

\* The updater the callback handed to setGameState, run on prev.
applyUpdate(prev, update) ==
    CASE update.intent = "applySkill" ->
            applySkill(prev, update.action[1].skill, update.action[1].target)
      [] update.intent = "makeMove" ->
            makeMove(prev, update.move[1][1], update.move[1][2])
      [] OTHER -> passTurn(prev)

\* The updater a timer callback has enqueued, if any, runs in the render a
\* handler causes: the session variables after that render, when the handler
\* itself sets no session state.
QueuedUpdateRendered ==
    IF app.pendingUpdate = <<>>
    THEN UNCHANGED <<baseSession, gameState, lastCall, turnCalls, barrierLog, flipInput,
                     flipCall, turnLimit>>
    ELSE \E update \in {app.pendingUpdate[1]} :
            SessionStep(update.intent,
                        IF update.action # <<>> THEN update.action[1].skill ELSE "none",
                        IF update.action # <<>> THEN update.action[1].target ELSE <<>>,
                        applyUpdate(gameState, update))

\* setCpuLevel(next): the render it causes applies an enqueued update of the
\* session state as well, and the effect runs on the state that results.
handleCpuLevelChange(next) ==
    /\ app.mode = "cpu"
    /\ next # app.cpuLevel
    /\ QueuedUpdateRendered
    /\ Render([app EXCEPT !.cpuLevel = next, !.pendingUpdate = <<>>])
    /\ cpuIssued' = <<>>

\* PLAY AGAIN in the result panel.
RestartClick(positions) ==
    /\ gameState.gameOver
    /\ SessionReset(positions)
    /\ Render([app EXCEPT !.pendingUpdate = <<>>])
    /\ cpuIssued' = <<>>

\* A handler returns at once: nothing is set and nothing is called.
NothingDone == UNCHANGED vars

\* A handler sets pendingSkill and pendingTarget and calls nothing else.
\* Setting them to the values they have causes no render.  A render runs an
\* effect still pending from the commit before; one that applies an
\* enqueued update of the session state runs the effect on the new state.
\* Like the intents, a selection is followed below the turn bound only.
SetPending(skill, target) ==
    IF skill = app.pendingSkill /\ target = app.pendingTarget THEN NothingDone
    ELSE IF ~WithinBound THEN FALSE
    ELSE IF app.pendingUpdate # <<>>
    THEN /\ QueuedUpdateRendered
         /\ Render([app EXCEPT !.pendingSkill = skill, !.pendingTarget = target,
                               !.pendingUpdate = <<>>])
         /\ cpuIssued' = <<>>
    ELSE /\ \E flushed \in {flushPassiveEffects} :
               /\ app' = [flushed.app EXCEPT !.pendingSkill = skill,
                                             !.pendingTarget = target]
               /\ timers' = flushed.timers
         /\ cpuIssued' = <<>>
         /\ UNCHANGED <<baseSession, gameState, lastCall, turnCalls, barrierLog,
                        flipInput, flipCall, turnLimit>>

\* A handler calls the intent `op` of the session, which produces `next`,
\* and leaves the component values `a`.  A call whose updater returns prev
\* sets no session state; when the handler then sets the pending selection
\* to the value it has, nothing is rendered and nothing has changed.  The
\* handlers that call an intent do so past their return on the CPU's turn,
\* where no update of a timer callback is enqueued.
CallIntent(op, skill, target, next, a) ==
    \E produced \in {next} :
        IF produced = gameState /\ a = app THEN NothingDone
        ELSE /\ produced # gameState => WithinBound
             /\ SessionStep(op, skill, target, produced)
             /\ Render([a EXCEPT !.pendingUpdate = <<>>])
             /\ cpuIssued' = <<>>

\* handleCellClick past its first line.
handleCellClickOnHumanTurn(row, col) ==
    IF app.pendingSkill # <<>> /\ SKILL_REQUIRES_TARGET(app.pendingSkill[1])
    THEN IF appIsValidSkillTarget(gameState, app.pendingSkill[1], row, col)
         THEN SetPending(app.pendingSkill,
                         IF app.pendingTarget = << <<row, col>> >> THEN <<>>
                         ELSE << <<row, col>> >>)
         ELSE NothingDone
    ELSE CallIntent("makeMove", "none", <<>>, makeMove(gameState, row, col),
                    NoPending(app))

\* Mutant: the handler lacks the return on the CPU's turn.
handleCellClick_OnCpuTurnToo(row, col) == handleCellClickOnHumanTurn(row, col)

handleCellClick(row, col) ==
    IF isCpuTurn(app, gameState) THEN NothingDone
    ELSE handleCellClickOnHumanTurn(row, col)

\* handleSkillClick past its first line.
handleSkillClickOnHumanTurn(skill) ==
    IF ~canUseSkill(gameState, app.pendingSkill, skill) THEN NothingDone
    ELSE IF skill = "double"
    THEN CallIntent("applySkill", skill, <<>>, applySkill(gameState, skill, <<>>), app)
    ELSE IF app.pendingSkill = <<skill>> THEN SetPending(<<>>, <<>>)
    ELSE SetPending(<<skill>>, <<>>)

\* The skill buttons of a hand call handleSkillClick for the hand of the
\* current player only, and not for the hand of the CPU.
handleSkillClick(skill) ==
    IF isCpuTurn(app, gameState) THEN NothingDone
    ELSE handleSkillClickOnHumanTurn(skill)

\* confirmSkill past its first line.
confirmSkillOnHumanTurn ==
    IF app.pendingSkill = <<>> \/ app.pendingTarget = <<>> THEN NothingDone
    ELSE CallIntent("applySkill", app.pendingSkill[1], app.pendingTarget,
                    applySkill(gameState, app.pendingSkill[1], app.pendingTarget),
                    NoPending(app))

confirmSkill ==
    IF isCpuTurn(app, gameState) THEN NothingDone
    ELSE confirmSkillOnHumanTurn

cancelSkill ==
    IF isCpuTurn(app, gameState) THEN NothingDone
    ELSE SetPending(<<>>, <<>>)

\* Mutant: the placement is tried before the skill action.
cpuDecision_MoveFirst(t, pick, aboveChance) ==
    LET Issue(action, move) ==
            [action |-> action, move |-> move,
             intent |-> IF move # <<>> THEN "makeMove"
                        ELSE IF action # <<>> THEN "applySkill" ELSE "passTurn"]
        After(move) ==
            Issue(IF move # <<>> THEN <<>>
                  ELSE chooseSkillAction(t.snapshot, t.cpuLevel, t.cpuPlayer,
                                         aboveChance),
                  move)
    IN After(chooseMove(t.snapshot, t.cpuLevel, t.cpuPlayer, pick))

\* What the callback of timer t computes and which intent it issues; pick and
\* aboveChance are the draws of Math.random in chooseMove and
\* chooseSkillAction.
cpuDecision(t, pick, aboveChance) ==
    LET Issue(action, move) ==
            [action |-> action, move |-> move,
             intent |-> IF action # <<>> THEN "applySkill"
                        ELSE IF move # <<>> THEN "makeMove" ELSE "passTurn"]
        After(action) ==
            Issue(action,
                  IF action # <<>> THEN <<>>
                  ELSE chooseMove(t.snapshot, t.cpuLevel, t.cpuPlayer, pick))
    IN After(chooseSkillAction(t.snapshot, t.cpuLevel, t.cpuPlayer, aboveChance))

\* The values Math.floor(Math.random() * moves.length) can take in
\* chooseMove on the snapshot of t.
Picks(t) ==
    IF t.cpuLevel = "easy" /\ Len(getValidMovesFor(t.snapshot, t.cpuPlayer)) > 0
    THEN 0 .. (Len(getValidMovesFor(t.snapshot, t.cpuPlayer)) - 1)
    ELSE {0}

\* The outcomes of Math.random() > chance in chooseSkillAction.
Chances(t) == IF t.cpuLevel = "easy" THEN BOOLEAN ELSE {FALSE}

\* The callback of the pending timer t runs: it clears the refs, decides and
\* calls one intent of the session, which enqueues the update.
CpuTimerFires(t, pick, aboveChance) ==
    /\ t \in timers
    /\ WithinBound
    /\ \E decided \in {cpuDecision(t, pick, aboveChance)} :
          /\ app' = [app EXCEPT !.cpuTimerRef = <<>>, !.cpuBusyRef = FALSE,
                                !.pendingUpdate =
                                    <<[intent |-> decided.intent,
                                       action |-> decided.action,
                                       move |-> decided.move]>>]
          /\ cpuIssued' = <<[timer |-> t, action |-> decided.action,
                             move |-> decided.move, intent |-> decided.intent]>>
    /\ timers' = timers \ {t}
    /\ UNCHANGED <<baseSession, gameState, lastCall, turnCalls, barrierLog, flipInput,
                   flipCall, turnLimit>>

\* The render after the callback: the enqueued updater runs on the session
\* state and the result is committed.  When it is a new state a dependency
\* of the effect has changed, and the effect is left to run later.
RenderPendingUpdate ==
    /\ app.pendingUpdate # <<>>
    /\ \E update \in {app.pendingUpdate[1]} :
         \E next \in {applyUpdate(gameState, update)} :
            /\ SessionStep(update.intent,
                           IF update.action # <<>> THEN update.action[1].skill
                           ELSE "none",
                           IF update.action # <<>> THEN update.action[1].target
                           ELSE <<>>,
                           next)
            /\ app' = [app EXCEPT !.pendingUpdate = <<>>,
                                  !.effectPending = app.effectPending \/ next # gameState]
    /\ timers' = timers
    /\ cpuIssued' = cpuIssued

\* The effect of the committed render runs: cleanup, then body.
RunPendingEffect ==
    /\ app.effectPending
    /\ \E ran \in {flushPassiveEffects} :
          app' = ran.app /\ timers' = ran.timers
    /\ cpuIssued' = cpuIssued
    /\ UNCHANGED <<baseSession, gameState, lastCall, turnCalls, barrierLog, flipInput,
                   flipCall, turnLimit>>

\* The sessions the App is followed from, in PVP mode as mounted: a new one,
\* and one that Black can end with the next placement.
CpuStarts ==
    {[script |-> <<>>, turns |-> MaxCpuTurnIndex],
     [script |-> <<Place(4, 5), Place(5, 5), Place(2, 3), Use("remove", 3, 4)>>,
      turns |-> 1]}

InitCpu ==
    /\ \E start \in CpuStarts :
          /\ gameState = replay(initialGameState(NearShuffle), start.script)
          /\ lastCall = IF start.script = <<>> THEN [op |-> "init", outcome |-> "none"]
                        ELSE [op |-> start.script[Len(start.script)].op,
                              outcome |-> "accepted"]
          /\ turnLimit = gameState.turnIndex + start.turns
    /\ turnCalls = NoCalls
    /\ barrierLog = <<>>
    /\ flipInput = [board |-> createInitialBoard, protection |-> NoProtection]
    /\ flipCall = <<>>
    /\ AppIdle
    /\ BaseIdle

NextCpu ==
    \/ \E next \in {"pvp", "cpu"}, positions \in CpuShuffles :
          handleModeChange(next, positions)
    \/ \E next \in Players, positions \in CpuShuffles :
          handleCpuPlayerChange(next, positions)
    \/ \E next \in {"easy", "normal", "hard"} : handleCpuLevelChange(next)
    \/ \E positions \in CpuShuffles : RestartClick(positions)
    \/ \E row \in Coords, col \in Coords : handleCellClick(row, col)
    \/ \E skill \in SkillTypes : handleSkillClick(skill)
    \/ confirmSkill
    \/ cancelSkill
    \/ \E t \in timers :
          \E pick \in Picks(t), aboveChance \in Chances(t) :
              CpuTimerFires(t, pick, aboveChance)
    \/ RenderPendingUpdate
    \/ RunPendingEffect

SpecCpu == InitCpu /\ [][NextCpu]_vars

\* The ids the timers of the model take: with at most one timer pending
\* and no id returned twice in a row, two.
TimerIdRange == {1, 2}

\* The callback of the pending timer with this id can run: it has no guard
\* of its own, and it always changes timers.  A timer set after this one
\* was cleared has another id.
CpuTimerFiresEnabled(id) == WithinBound /\ \E t \in timers : t.id = id

\* A step of CpuTimerFires for the timer with this id among the steps of
\* NextCpu: the one step that enqueues an update.
CpuTimerFired(id) ==
    /\ app.pendingUpdate = <<>>
    /\ app'.pendingUpdate # <<>>
    /\ \E t \in timers : t.id = id /\ t \notin timers'

\* <<RenderPendingUpdate>>_vars among the steps of NextCpu, or a reset that
\* makes the render of the update a render of the state the reset has set.
PendingUpdateRendered == app.pendingUpdate # <<>> /\ app'.pendingUpdate = <<>>

\* The App with its timers running and its renders scheduled: each timer
\* has its own delay and fires once that is over, if it stays set until
\* then; a timer that is cleared and set anew starts a new delay.  An
\* enqueued update is rendered and a pending effect is run.  The last three
\* conjuncts are weak fairness of the callback of each timer, of
\* RenderPendingUpdate and of RunPendingEffect (or a handler whose render
\* runs the effect), written out as
\* []<>~ENABLED <<A>>_vars \/ []<><<A>>_vars.
SpecCpuLive ==
    /\ InitCpu
    /\ [][NextCpu]_vars
    /\ \A id \in TimerIdRange :
          []<>~CpuTimerFiresEnabled(id) \/ []<><<CpuTimerFired(id)>>_vars
    /\ ([]<>(app.pendingUpdate = <<>>) \/ []<><<PendingUpdateRendered>>_vars)
    /\ ([]<>~app.effectPending
          \/ []<><<app.effectPending /\ ~app'.effectPending>>_vars)

(***************************************************************************)
(* The capture rule on its own: getFlippableDiscs applied to boards and    *)
(* protection overlays drawn from bounded sets.                            *)
(***************************************************************************)
\* At most this many discs on a drawn board.
MaxProbeDiscs == 3

\* The cells a drawn board may hold discs on: the row, the column and the
\* diagonal that leave corner (0, 0), four cells each; (2, 0), (1, 1), (0, 2)
\* also form an anti-diagonal.
ProbeCells ==
    {<<0, 0>>, <<0, 1>>, <<0, 2>>, <<0, 3>>, <<1, 0>>, <<2, 0>>, <<3, 0>>,
     <<1, 1>>, <<2, 2>>, <<3, 3>>}

boardOf(discs) ==
    [r \in 1 .. BOARD_SIZE |-> [c \in 1 .. BOARD_SIZE |->
        IF <<r - 1, c - 1>> \in DOMAIN discs THEN discs[<<r - 1, c - 1>>] ELSE NULL]]

ProbeBoards ==
    {boardOf(discs) :
        discs \in UNION {[D -> Players] :
                            D \in {D \in SUBSET ProbeCells :
                                      Cardinality(D) <= MaxProbeDiscs}}}

ProbeShields == {{}, {<<0, 1>>}, {<<1, 1>>, <<0, 2>>}, {<<2, 0>>, <<2, 2>>}}

ProbeBarriers ==
    {<<>>, <<[active |-> TRUE, appliesTo |-> "black",
              cells |-> buildBarrierCells(0, 0)]>>}

InitFlip ==
    /\ gameState = initialGameState(CHOOSE positions \in Shuffles : TRUE)
    /\ lastCall = [op |-> "init", outcome |-> "none"]
    /\ turnLimit = MaxTurnIndex
    /\ turnCalls = NoCalls
    /\ barrierLog = <<>>
    /\ \E board \in ProbeBoards, shield \in ProbeShields, barrier \in ProbeBarriers :
          flipInput = [board |-> board,
                       protection |-> [shield |-> shield, barrier |-> barrier]]
    /\ flipCall = <<>>
    /\ AppIdle
    /\ BaseIdle

\* getFlippableDiscs(board, player, row, col, protection) and
\* applyMove(board, player, row, col, protection) are called on the drawn
\* input and return; each input is probed by one such pair of calls.
FlipCall(player, row, col) ==
    /\ flipCall = <<>>
    /\ flipCall' = <<[player |-> player, row |-> row, col |-> col,
                      flippable |-> getFlippableDiscs(flipInput.board, player, row, col,
                                                      flipInput.protection),
                      moved |-> applyMove(flipInput.board, player, row, col,
                                          flipInput.protection)]>>
    /\ UNCHANGED <<baseSession, gameState, lastCall, flipInput, turnLimit, turnCalls, barrierLog>>
    /\ UNCHANGED appVars

NextFlip ==
    \E player \in Players, cell \in ProbeCells : FlipCall(player, cell[1], cell[2])

SpecFlip == InitFlip /\ [][NextFlip]_vars

(***************************************************************************)
(* Vocabulary of the properties                                            *)
(***************************************************************************)
\* The protection in force for `player` in state s at s's own turn index.
ProtectionInForce(s, player) == getFlipProtection(s, player, s.turnIndex)

\* The standard capture rule, stated on its own: the opposing discs bracketed
\* in direction d between (row, col) and the nearest disc of `player`.
Bracketed(board, player, row, col, d) ==
    LET at(k) == <<row + k * d[1], col + k * d[2]>>
        holds(k, v) == inBounds(at(k)[1], at(k)[2])
                       /\ board[at(k)[1] + 1][at(k)[2] + 1] = v
        ends == {n \in 2 .. BOARD_SIZE :
                    holds(n, player)
                    /\ \A k \in 1 .. (n - 1) : holds(k, Opponent(player))}
    IN IF ~holds(1, Opponent(player)) THEN {}
       ELSE UNION {{at(k) : k \in 1 .. (n - 1)} : n \in ends}

StandardCaptures(board, player, row, col) ==
    IF board[row + 1][col + 1] # NULL THEN {}
    ELSE UNION {Bracketed(board, player, row, col, DIRECTIONS[i]) :
                    i \in 1 .. Len(DIRECTIONS)}

\* Placing at (row, col) is legal for `player` in state s: it captures at
\* least one disc that the protection in force does not cover.
LegalPlacement(s, player, row, col) ==
    \E p \in StandardCaptures(s.board, player, row, col) :
        ~isProtected(ProtectionInForce(s, player), player, p[1], p[2])

\* `player` has a legal placement in state s.
CanPlace(s, player) ==
    \E row \in Coords, col \in Coords : LegalPlacement(s, player, row, col)

\* A step that advances the turn (only advanceTurn increments turnIndex).
TurnAdvances == gameState'.turnIndex = gameState.turnIndex + 1

(***************************************************************************)
(* C1.  While the game is not over, makeMove(row, col) on an in-range cell *)
(* changes the session state iff the cell is empty and the flip list under *)
(* the protection in force for the current player is non-empty (the        *)
(* standard captures minus the protected cells); on an occupied cell the   *)
(* flip list is empty and the placement is rejected.                       *)
(***************************************************************************)
C1_PlacementLegalIffFlips ==
    ~gameState.gameOver =>
        \A row \in Coords, col \in Coords :
            LET player == gameState.currentPlayer
                protection == ProtectionInForce(gameState, player)
                flips == getFlippableDiscs(gameState.board, player, row, col, protection)
                empty == gameState.board[row + 1][col + 1] = NULL
                changed == makeMove(gameState, row, col) # gameState
            IN /\ changed <=> (empty /\ Len(flips) > 0)
               /\ SeqToSet(flips) =
                     {p \in StandardCaptures(gameState.board, player, row, col) :
                         ~isProtected(protection, player, p[1], p[2])}
               /\ ~empty => (flips = <<>> /\ ~changed)

\* An accepted placement that flipped discs, after the opening moves.
C1_Witness ==
    /\ lastCall = [op |-> "makeMove", outcome |-> "accepted"]
    /\ gameState.lastMove # <<>>
    /\ Len(gameState.lastMove[1].flipped) > 0
    /\ gameState.turnIndex >= 2

(***************************************************************************)
(* C2.  Shield invariant: for every board, player, target cell and shield  *)
(* grid, no cell whose shield flag is set is in the result of              *)
(* getFlippableDiscs.                                                      *)
(***************************************************************************)
C2_ShieldedNeverFlipped ==
    flipCall # <<>> =>
        \A p \in SeqToSet(flipCall[1].flippable) : p \notin flipInput.protection.shield

\* A call that captured discs on a board where a shielded opposing disc is
\* bracketed from the same target cell.
C2_Witness ==
    /\ flipCall # <<>>
    /\ flipCall[1].flippable # <<>>
    /\ \E p \in StandardCaptures(flipInput.board, flipCall[1].player,
                                 flipCall[1].row, flipCall[1].col) :
          p \in flipInput.protection.shield

(***************************************************************************)
(* C3.  Protection is applied per candidate cell: getFlippableDiscs with a *)
(* protection overlay returns exactly the cells returned without           *)
(* protection (by the base variant, and by itself without an overlay), in  *)
(* the same order, minus the protected cells; a protected disc inside a    *)
(* ray does not stop the capture of unprotected discs beyond it; the move  *)
(* is legal iff the filtered list is non-empty.                            *)
(***************************************************************************)
C3_ProtectionPerCell ==
    flipCall # <<>> =>
        LET call == flipCall[1]
            protection == flipInput.protection
            plain == baseGetFlippableDiscs(flipInput.board, call.player, call.row, call.col)
            unprotected(p) == ~isProtected(protection, call.player, p[1], p[2])
        IN /\ getFlippableDiscs(flipInput.board, call.player, call.row, call.col,
                                NoProtection) = plain
           /\ call.flippable = SelectSeq(plain, unprotected)
           /\ isValidMove(flipInput.board, call.player, call.row, call.col, protection)
                 <=> SelectSeq(plain, unprotected) # <<>>

\* A call that captured an unprotected disc lying beyond a protected opposing
\* disc on the same ray.
C3_Witness ==
    /\ flipCall # <<>>
    /\ flipCall[1].flippable # <<>>
    /\ \E i \in 1 .. Len(DIRECTIONS) :
          LET call == flipCall[1]
              at(n) == <<call.row + n * DIRECTIONS[i][1], call.col + n * DIRECTIONS[i][2]>>
              ray == Bracketed(flipInput.board, call.player, call.row, call.col,
                               DIRECTIONS[i])
          IN /\ ray # {}
             /\ \E k \in 1 .. BOARD_SIZE, m \in 1 .. BOARD_SIZE :
                   /\ k < m
                   /\ at(k) \in ray
                   /\ isProtected(flipInput.protection, call.player, at(k)[1], at(k)[2])
                   /\ at(m) \in SeqToSet(call.flippable)

(***************************************************************************)
(* C4.  Turn-skip rule: when a turn advances, the opponent of the player   *)
(* who acted gets the turn iff it has a legal placement in the resulting   *)
(* state; if it has none and the player who acted has one, that player     *)
(* keeps the turn and the game is not over.                                *)
(***************************************************************************)
C4_TurnSkipRule ==
    [][TurnAdvances =>
          LET actor == gameState.currentPlayer
              next == gameState'
          IN /\ CanPlace(next, Opponent(actor)) =>
                    next.currentPlayer = Opponent(actor) /\ ~next.gameOver
             /\ (~CanPlace(next, Opponent(actor)) /\ CanPlace(next, actor)) =>
                    next.currentPlayer = actor /\ ~next.gameOver]_vars

\* The turn stayed with the player who just activated a barrier: the
\* opponent has no placement, the owner has one.
C4_Witness ==
    /\ lastCall = [op |-> "applySkill", outcome |-> "accepted"]
    /\ ~gameState.gameOver
    /\ gameState.barrier # <<>>
    /\ gameState.barrier[1].expiresOnTurn = gameState.turnIndex
    /\ gameState.barrier[1].owner = gameState.currentPlayer
    /\ ~CanPlace(gameState, Opponent(gameState.currentPlayer))
    /\ CanPlace(gameState, gameState.currentPlayer)

(***************************************************************************)
(* C5.  Game end: when a turn advances, the game is over in the resulting  *)
(* state iff neither player has a legal placement there, and the winner is *)
(* then the player with strictly more discs on the resulting board, or     *)
(* "draw" on equal counts; gameOver becomes true in no other step.         *)
(***************************************************************************)
C5_GameEnd ==
    [][LET next == gameState'
           black == countDiscs(next.board, "black")
           white == countDiscs(next.board, "white")
       IN /\ TurnAdvances =>
                /\ next.gameOver <=>
                      (~CanPlace(next, "black") /\ ~CanPlace(next, "white"))
                /\ next.gameOver =>
                      next.winner = IF black > white THEN "black"
                                    ELSE IF white > black THEN "white" ELSE "draw"
                /\ ~next.gameOver => next.winner = NULL
          /\ (~gameState.gameOver /\ next.gameOver) => TurnAdvances]_vars

\* A game that ended by an accepted placement, with a winner.
C5_Witness ==
    /\ lastCall = [op |-> "makeMove", outcome |-> "accepted"]
    /\ gameState.gameOver
    /\ gameState.winner = "black"
    /\ ~CanPlace(gameState, "black")
    /\ ~CanPlace(gameState, "white")

(***************************************************************************)
(* C6.  GameOver is terminal: in a state with gameOver true every makeMove *)
(* and every applySkill call returns the state unchanged (and none         *)
(* raises), and the only step that changes such a state is resetGame.      *)
(***************************************************************************)
C6_GameOverTerminal ==
    /\ [](gameState.gameOver =>
            /\ \A row \in InputCoords, col \in InputCoords :
                  /\ ~makeMoveThrows(gameState, row, col)
                  /\ makeMove(gameState, row, col) = gameState
            /\ \A skill \in SkillTypes, target \in Targets :
                  applySkill(gameState, skill, target) = gameState)
    /\ [][gameState.gameOver =>
            (gameState' = gameState \/ lastCall'.op = "resetGame")]_vars

\* A finished game in which the player to move still holds a skill, and an
\* applySkill call was made and rejected.
C6_Witness ==
    /\ gameState.gameOver
    /\ lastCall = [op |-> "applySkill", outcome |-> "rejected"]
    /\ Len(gameState.hands[gameState.currentPlayer]) > 0

(***************************************************************************)
(* C7.  Rejecting an illegal placement is a no-op: for every in-range cell *)
(* that is no legal placement for the current player, makeMove returns a   *)
(* state equal in every field, so applying it twice equals applying it     *)
(* once.                                                                   *)
(***************************************************************************)
C7_RejectionIsNoOp ==
    \A row \in Coords, col \in Coords :
        LET player == gameState.currentPlayer
            legal == LegalPlacement(gameState, player, row, col)
            once == makeMove(gameState, row, col)
        IN ~legal =>
              /\ \A field \in DOMAIN gameState : once[field] = gameState[field]
              /\ makeMove(once, row, col) = once

\* A rejected makeMove in a running game.
C7_Witness ==
    /\ lastCall = [op |-> "makeMove", outcome |-> "rejected"]
    /\ ~gameState.gameOver
    /\ gameState.turnIndex > 0

(***************************************************************************)
(* C8.  The core is safe for any intent: makeMove and applySkill with any  *)
(* integer coordinates, also outside 0 .. 7, never raise and return the    *)
(* unchanged state.                                                        *)
(***************************************************************************)
C8_SafeForAnyIntent ==
    /\ lastCall.outcome # "threw"
    /\ \A row \in InputCoords, col \in InputCoords :
          ~inBounds(row, col) =>
             /\ ~makeMoveThrows(gameState, row, col)
             /\ \A skill \in SkillTypes :
                   applySkill(gameState, skill, << <<row, col>> >>) = gameState

(***************************************************************************)
(* C9.  Every illegal skill activation is rejected with no state change:   *)
(* applySkill returns the identical state (hand and log included) when the *)
(* skill is not in the current player's hand, when a targeted skill has no *)
(* target or a target failing isValidSkillTarget, when turnSkillUsed is    *)
(* true, when doubleMoveRemaining > 0, and when "double" is requested      *)
(* while the current player has no legal placement.                        *)
(***************************************************************************)
C9_IllegalSkillRejected ==
    \A skill \in SkillTypes, target \in Targets :
        LET player == gameState.currentPlayer
            illegal ==
                \/ ~includes(gameState.hands[player], skill)
                \/ skill # "double" /\ target = <<>>
                \/ /\ skill # "double"
                   /\ target # <<>>
                   /\ ~isValidSkillTarget(gameState, skill, target[1][1], target[1][2])
                \/ gameState.turnSkillUsed
                \/ gameState.doubleMoveRemaining > 0
                \/ skill = "double" /\ ~CanPlace(gameState, player)
            next == applySkill(gameState, skill, target)
        IN illegal =>
              /\ next = gameState
              /\ next.hands = gameState.hands
              /\ next.logs = gameState.logs

\* An applySkill call rejected inside a double sequence, while the player
\* holds a skill.
C9_Witness ==
    /\ lastCall = [op |-> "applySkill", outcome |-> "rejected"]
    /\ ~gameState.gameOver
    /\ gameState.doubleMoveRemaining > 0
    /\ gameState.turnSkillUsed
    /\ Len(gameState.hands[gameState.currentPlayer]) > 0

(***************************************************************************)
(* C10.  applySkill with convert, shield, remove or barrier on any of the  *)
(* four corner cells is rejected and leaves the state unchanged.           *)
(***************************************************************************)
C10_CornersNeverTargets ==
    \A skill \in {"convert", "shield", "remove", "barrier"}, corner \in Corners :
        applySkill(gameState, skill, <<corner>>) = gameState

\* A step in which an applySkill call was accepted.
SkillAccepted ==
    /\ lastCall' = [op |-> "applySkill", outcome |-> "accepted"]
    /\ gameState' # gameState

\* A step in which a makeMove call was accepted.
MoveAccepted ==
    /\ lastCall' = [op |-> "makeMove", outcome |-> "accepted"]
    /\ gameState' # gameState

(***************************************************************************)
(* C11.  At most one skill activation is accepted per turn: an applySkill  *)
(* call is accepted only when no applySkill call has been accepted since   *)
(* turnIndex last changed, and while doubleMoveRemaining > 0 applySkill    *)
(* returns the unchanged state for every skill and every target.           *)
(***************************************************************************)
C11_OneSkillPerTurn ==
    /\ [](gameState.doubleMoveRemaining > 0 =>
             \A skill \in SkillTypes, target \in Targets :
                 applySkill(gameState, skill, target) = gameState)
    /\ [][SkillAccepted => turnCalls.skills = 0]_vars

\* Inside a double sequence, after the one activation of the turn, the
\* player holds a skill that has a valid target.
C11_Witness ==
    /\ gameState.doubleMoveRemaining > 0
    /\ turnCalls.skills = 1
    /\ ~gameState.gameOver
    /\ \E skill \in SkillTypes, p \in Cells :
          /\ includes(gameState.hands[gameState.currentPlayer], skill)
          /\ isValidSkillTarget(gameState, skill, p[1], p[2])

(***************************************************************************)
(* C12.  Double sequence: an accepted "double" activation sets             *)
(* doubleMoveRemaining to 2 and leaves board, currentPlayer and turnIndex  *)
(* unchanged; an accepted placement inside the sequence lowers the counter *)
(* by one and keeps player and turn index when it is the first one and the *)
(* player can place again, and otherwise (second placement, or no legal    *)
(* placement left) advances the turn with the counter at 0; no more than   *)
(* two placements are accepted at one turn index, and the second one       *)
(* advances the turn.                                                      *)
(***************************************************************************)
C12_DoubleSequence ==
    /\ [](\A target \in Targets :
             LET next == applySkill(gameState, "double", target)
             IN next # gameState =>
                   /\ next.doubleMoveRemaining = 2
                   /\ next.board = gameState.board
                   /\ next.currentPlayer = gameState.currentPlayer
                   /\ next.turnIndex = gameState.turnIndex)
    /\ [](gameState.doubleMoveRemaining > 0 =>
             \A row \in Coords, col \in Coords :
                 LET next == makeMove(gameState, row, col)
                     player == gameState.currentPlayer
                     remaining == gameState.doubleMoveRemaining - 1
                 IN next # gameState =>
                       IF /\ remaining > 0
                          /\ CanPlace([gameState EXCEPT !.board = next.board], player)
                       THEN /\ next.doubleMoveRemaining = remaining
                            /\ next.turnIndex = gameState.turnIndex
                            /\ next.currentPlayer = player
                       ELSE /\ next.doubleMoveRemaining = 0
                            /\ next.turnIndex = gameState.turnIndex + 1)
    /\ [][MoveAccepted =>
             /\ turnCalls.placements <= 1
             /\ turnCalls.placements = 1 => TurnAdvances
             /\ gameState.doubleMoveRemaining = 0 => TurnAdvances]_vars

\* A double sequence that ended after its first placement, the game going
\* on: one activation and one placement at the turn index just left.
C12_Witness ==
    /\ lastCall = [op |-> "makeMove", outcome |-> "accepted"]
    /\ turnCalls.before = [skills |-> 1, placements |-> 1]
    /\ ~gameState.gameOver

\* A double sequence of two placements.
C12_WitnessTwoPlacements ==
    /\ lastCall = [op |-> "makeMove", outcome |-> "accepted"]
    /\ turnCalls.before = [skills |-> 1, placements |-> 2]

(***************************************************************************)
(* C13.  turnIndex is monotonic and counts completed turns: an accepted    *)
(* "double" activation and an accepted placement that leaves a double      *)
(* sequence open keep turnIndex, every other accepted intent adds exactly  *)
(* 1; turnIndex decreases only by resetGame; a double sequence stays at    *)
(* the turn index of its activation and adds exactly 1 when it ends.       *)
(***************************************************************************)
C13_TurnIndexMonotonic ==
    /\ [](\A skill \in SkillTypes, target \in Targets :
             LET next == applySkill(gameState, skill, target)
             IN next # gameState =>
                   next.turnIndex =
                      gameState.turnIndex + (IF skill = "double" THEN 0 ELSE 1))
    /\ [](\A row \in Coords, col \in Coords :
             LET next == makeMove(gameState, row, col)
             IN next # gameState =>
                   next.turnIndex =
                      gameState.turnIndex +
                         (IF gameState.doubleMoveRemaining > 0
                             /\ next.doubleMoveRemaining > 0 THEN 0 ELSE 1))
    /\ [](gameState.doubleMoveRemaining > 0 => turnCalls.skills = 1)
    /\ [][/\ gameState'.turnIndex < gameState.turnIndex => lastCall'.op = "resetGame"
          /\ lastCall'.op # "resetGame" =>
                gameState'.turnIndex \in {gameState.turnIndex, gameState.turnIndex + 1}
          /\ (gameState.doubleMoveRemaining > 0 /\ gameState'.doubleMoveRemaining = 0
                /\ lastCall'.op # "resetGame") => TurnAdvances]_vars

\* A double sequence of two placements has ended: activated at turn index
\* 2, it leaves the session at turn index 3.
C13_Witness ==
    /\ lastCall = [op |-> "makeMove", outcome |-> "accepted"]
    /\ turnCalls.before.skills = 1
    /\ turnCalls.before.placements = 2
    /\ gameState.turnIndex = 3

\* The in-range cells at row and column distance at most 1 from `cell`,
\* without `cell` itself.
Neighbourhood(cell) ==
    {p \in Cells : /\ p # cell
                   /\ p[1] - cell[1] \in (0 - 1) .. 1
                   /\ p[2] - cell[2] \in (0 - 1) .. 1}

\* The standard captures of a placement that no shield covers.
UnshieldedCaptures(s, player, row, col) ==
    {p \in StandardCaptures(s.board, player, row, col) : p \notin s.shield}

(***************************************************************************)
(* C14.  Barrier expiry: after a barrier activation at turn index T the    *)
(* barrier record has expiresOnTurn = T + 1; for either player and every   *)
(* cell the flip list computed for a turn index greater than T + 1 (the    *)
(* current one, or T + 2 as advanceTurn asks for it) is the standard       *)
(* captures minus the shielded cells only, so the barrier removes nothing  *)
(* from flips, legality and mobility; and the record is inactive in every  *)
(* state whose turnIndex exceeds T + 1.                                    *)
(***************************************************************************)
C14_BarrierExpiry ==
    barrierLog # <<>> =>
        LET T == barrierLog[1].turn
            later == {T + 2} \cup {i \in {gameState.turnIndex} : i > T + 1}
        IN /\ gameState.barrier # <<>>
           /\ gameState.barrier[1].expiresOnTurn = T + 1
           /\ gameState.turnIndex > T + 1 => ~gameState.barrier[1].active
           /\ \A player \in Players, turnIndex \in later :
                 LET protection == getFlipProtection(gameState, player, turnIndex)
                 IN /\ \A row \in Coords, col \in Coords :
                          /\ SeqToSet(getFlippableDiscs(gameState.board, player, row, col,
                                                        protection))
                                = UnshieldedCaptures(gameState, player, row, col)
                          /\ isValidMove(gameState.board, player, row, col, protection)
                                <=> UnshieldedCaptures(gameState, player, row, col) # {}
                    /\ hasValidMoves(gameState.board, player, protection)
                          <=> \E row \in Coords, col \in Coords :
                                 UnshieldedCaptures(gameState, player, row, col) # {}

\* Past the expiry, with the record inactive, the player the barrier applied
\* to has a placement that captures a disc inside the barrier's region.
C14_Witness ==
    /\ barrierLog # <<>>
    /\ gameState.turnIndex > barrierLog[1].turn + 1
    /\ gameState.barrier # <<>>
    /\ ~gameState.barrier[1].active
    /\ \E row \in Coords, col \in Coords :
          \E p \in SeqToSet(getFlippableDiscs(gameState.board,
                                              Opponent(barrierLog[1].owner), row, col,
                                              ProtectionInForce(gameState,
                                                                Opponent(barrierLog[1].owner)))) :
              p \in Neighbourhood(barrierLog[1].cell)

\* The discs inside the region of the logged barrier that belong to its
\* owner keep their colour from board `before` to board `after`.
RegionKept(before, after) ==
    \A p \in Neighbourhood(barrierLog[1].cell) :
        before[p[1] + 1][p[2] + 1] = barrierLog[1].owner
            => after[p[1] + 1][p[2] + 1] = barrierLog[1].owner

(***************************************************************************)
(* C15 (as stated).  After a player P accepts a barrier activation at cell *)
(* X, the very next turn taken by P's opponent is played under the         *)
(* barrier: as long as the opponent has completed no turn since the        *)
(* activation, no placement the opponent makes flips a disc in the 3x3     *)
(* neighbourhood of X.                                                     *)
(***************************************************************************)
C15_NextOpponentTurnUnderBarrier ==
    (/\ barrierLog # <<>>
     /\ ~barrierLog[1].opponentTurnTaken
     /\ gameState.currentPlayer = Opponent(barrierLog[1].owner)) =>
        \A row \in Coords, col \in Coords :
            LET next == makeMove(gameState, row, col)
            IN next # gameState => RegionKept(gameState.board, next.board)

(***************************************************************************)
(* C15 (amended).  After a player P accepts a barrier activation at cell X *)
(* at turn index T, if P's opponent is the player to move at turn index    *)
(* T + 1, every placement the opponent makes at that turn index flips      *)
(* exactly its standard captures outside the shielded cells and outside    *)
(* the 3x3 neighbourhood of X (minus X); when the opponent is skipped at   *)
(* T + 1, the opponent's next turn comes after the expiry.                 *)
(***************************************************************************)
C15_BarrierCoversTurnAfterActivation ==
    (/\ barrierLog # <<>>
     /\ ~barrierLog[1].opponentTurnTaken
     /\ gameState.currentPlayer = Opponent(barrierLog[1].owner)) =>
        IF gameState.turnIndex = barrierLog[1].turn + 1
        THEN \A row \in Coords, col \in Coords :
                 LET next == makeMove(gameState, row, col)
                 IN next # gameState =>
                       /\ RegionKept(gameState.board, next.board)
                       /\ SeqToSet(next.lastMove[1].flipped) =
                             UnshieldedCaptures(gameState, gameState.currentPlayer, row, col)
                                \ Neighbourhood(barrierLog[1].cell)
        ELSE /\ gameState.turnIndex > barrierLog[1].turn + 1
             /\ ~gameState.barrier[1].active

\* The opponent has placed at turn index T + 1, and a disc of the barrier's
\* owner inside the region, unshielded, is still bracketed by the placed
\* disc: the barrier kept it from being flipped.
C15_Witness ==
    /\ lastCall = [op |-> "makeMove", outcome |-> "accepted"]
    /\ barrierLog # <<>>
    /\ barrierLog[1].opponentTurnTaken
    /\ gameState.turnIndex = barrierLog[1].turn + 2
    /\ gameState.lastMove # <<>>
    /\ gameState.lastMove[1].player = Opponent(barrierLog[1].owner)
    /\ \E i \in 1 .. Len(DIRECTIONS) :
          \E p \in Bracketed(gameState.board, gameState.lastMove[1].player,
                             gameState.lastMove[1].row, gameState.lastMove[1].col,
                             DIRECTIONS[i]) :
              p \in Neighbourhood(barrierLog[1].cell) /\ p \notin gameState.shield

(***************************************************************************)
(* C16.  A barrier restricts only the opponent of its activator and only   *)
(* its region.  After an activation by P at cell X at turn index T: the    *)
(* record is owned by P, applies to P's opponent and its cells are exactly *)
(* the in-range cells at row and column distance at most 1 from X, without *)
(* X; for every placement by P the flip list, under P's own protection at  *)
(* any turn index and also under the opponent's overlay, is the standard   *)
(* captures minus the shielded cells (the barrier removes nothing); for    *)
(* the opponent, while the barrier is in force, the cells removed are      *)
(* exactly the captures that lie in that region.                           *)
(***************************************************************************)
C16_BarrierOnlyOpponentOnlyRegion ==
    barrierLog # <<>> =>
        LET owner == barrierLog[1].owner
            other == Opponent(owner)
            T == barrierLog[1].turn
            region == Neighbourhood(barrierLog[1].cell)
            overlay == getFlipProtection(gameState, other, T + 1)
            flips(player, row, col, protection) ==
                SeqToSet(getFlippableDiscs(gameState.board, player, row, col, protection))
        IN /\ gameState.barrier # <<>>
           /\ gameState.barrier[1].owner = owner
           /\ gameState.barrier[1].appliesTo = other
           /\ gameState.barrier[1].cells = region
           /\ \A row \in Coords, col \in Coords :
                 /\ \A turnIndex \in {T + 1, gameState.turnIndex} :
                       flips(owner, row, col, getFlipProtection(gameState, owner, turnIndex))
                          = UnshieldedCaptures(gameState, owner, row, col)
                 /\ flips(owner, row, col, overlay)
                       = UnshieldedCaptures(gameState, owner, row, col)
                 /\ gameState.barrier[1].active =>
                       /\ overlay.barrier # <<>>
                       /\ UnshieldedCaptures(gameState, other, row, col)
                             \ flips(other, row, col, overlay)
                          = UnshieldedCaptures(gameState, other, row, col) \cap region

\* The barrier is in force, its owner has a placement that captures a disc
\* inside the region, and the other player has a standard capture inside
\* the region that the barrier removes.
C16_Witness ==
    /\ barrierLog # <<>>
    /\ gameState.barrier # <<>>
    /\ gameState.barrier[1].active
    /\ gameState.turnIndex = barrierLog[1].turn + 1
    /\ \E row \in Coords, col \in Coords :
          UnshieldedCaptures(gameState, barrierLog[1].owner, row, col)
             \cap Neighbourhood(barrierLog[1].cell) # {}
    /\ \E row \in Coords, col \in Coords :
          UnshieldedCaptures(gameState, Opponent(barrierLog[1].owner), row, col)
             \cap Neighbourhood(barrierLog[1].cell) # {}

\* The capacity of a hand (the spec's "capacity exactly 2").
HandCapacity == 2

(***************************************************************************)
(* C17.  Hand capacity: in every reachable state each player's hand holds  *)
(* at most 2 skills, and so does every state a placement on a tile cell or *)
(* a warp onto a tile cell leads to.                                       *)
(***************************************************************************)
C17_HandCapacity ==
    /\ \A player \in Players : Len(gameState.hands[player]) <= HandCapacity
    /\ \A tile \in DOMAIN gameState.skillTiles, player \in Players :
          /\ Len(makeMove(gameState, tile[1], tile[2]).hands[player]) <= HandCapacity
          /\ Len(applySkill(gameState, "warp", <<tile>>).hands[player]) <= HandCapacity

\* A disc has landed on a tile while the mover's hand was full: the hand
\* holds 2 skills and the log ends with the discard entry.
C17_Witness ==
    /\ lastCall = [op |-> "makeMove", outcome |-> "accepted"]
    /\ gameState.lastMove # <<>>
    /\ Len(gameState.hands[gameState.lastMove[1].player]) = HandCapacity
    /\ Len(gameState.logs) > 0
    /\ gameState.logs[Len(gameState.logs)].template = "handFull"

\* hand with its first entry equal to skill left out, the other entries in
\* their order: the sequence one shorter than hand that agrees with hand
\* before the first position holding skill and with hand shifted by one
\* from that position on.
WithoutFirst(hand, skill) ==
    LET first == CHOOSE i \in 1 .. Len(hand) :
                     hand[i] = skill /\ \A j \in 1 .. Len(hand) : hand[j] = skill => i <= j
    IN [i \in 1 .. (Len(hand) - 1) |-> IF i < first THEN hand[i] ELSE hand[i + 1]]

\* The hand a pickup leaves: the tile's skill at the end of a hand with
\* room, a full hand as it was.
HandAfterLanding(hand, skill) ==
    IF Len(hand) < HandCapacity THEN Append(hand, skill) ELSE hand

(***************************************************************************)
(* C18.  Skill-tile pickup: whenever a disc lands on a cell holding a      *)
(* skill tile, by an accepted makeMove (inside a double sequence or not,   *)
(* whether the turn passes or not) or by an accepted warp, the tile is     *)
(* absent from skillTiles afterwards, the tile's skill is appended at the  *)
(* end of the landing player's hand iff that hand held fewer than 2        *)
(* skills and the hand is unchanged otherwise, and the other player's hand *)
(* is unchanged.  For warp the hand the disc lands with is the hand the    *)
(* warp has been taken out of.                                             *)
(***************************************************************************)
C18_SkillTilePickup ==
    \A tile \in DOMAIN gameState.skillTiles :
        LET lander == gameState.currentPlayer
            hand == gameState.hands[lander]
            skill == gameState.skillTiles[tile]
            placed == makeMove(gameState, tile[1], tile[2])
            warped == applySkill(gameState, "warp", <<tile>>)
        IN /\ placed # gameState =>
                /\ tile \notin DOMAIN placed.skillTiles
                /\ placed.hands[lander] = HandAfterLanding(hand, skill)
                /\ placed.hands[Opponent(lander)] = gameState.hands[Opponent(lander)]
           /\ warped # gameState =>
                /\ tile \notin DOMAIN warped.skillTiles
                /\ warped.hands[lander] =
                       HandAfterLanding(WithoutFirst(hand, "warp"), skill)
                /\ warped.hands[Opponent(lander)] = gameState.hands[Opponent(lander)]

\* A placement inside a double sequence has landed on a tile, picked its
\* skill up, and the turn has not passed.
C18_Witness ==
    /\ lastCall = [op |-> "makeMove", outcome |-> "accepted"]
    /\ gameState.doubleMoveRemaining = 1
    /\ gameState.lastMove # <<>>
    /\ Len(gameState.logs) > 0
    /\ gameState.logs[Len(gameState.logs)].template = "pickup"
    /\ gameState.logs[Len(gameState.logs)].pos =
           formatPos(gameState.lastMove[1].row, gameState.lastMove[1].col)
    /\ posKey(gameState.lastMove[1].row, gameState.lastMove[1].col)
           \notin DOMAIN gameState.skillTiles

\* A warp has landed on a tile: the log ends with the warp's use and the
\* pickup at the same cell.
C18_WitnessWarp ==
    /\ lastCall = [op |-> "applySkill", outcome |-> "accepted"]
    /\ Len(gameState.logs) > 1
    /\ gameState.logs[Len(gameState.logs)].template = "pickup"
    /\ gameState.logs[Len(gameState.logs) - 1].template = "use"
    /\ gameState.logs[Len(gameState.logs) - 1].skill = SKILL_NAMES["warp"]

(***************************************************************************)
(* C19.  Every accepted applySkill takes exactly one entry, the first      *)
(* occurrence of the activated skill, out of the activating player's hand: *)
(* a second copy of the skill stays, the remaining entries keep their      *)
(* order, and the other player's hand is unchanged.  (A warp that lands on *)
(* a tile may then append the tile's skill behind the remaining entries.)  *)
(***************************************************************************)
C19_SkillConsumedOnce ==
    \A skill \in SkillTypes, target \in Targets :
        LET activator == gameState.currentPlayer
            hand == gameState.hands[activator]
            next == applySkill(gameState, skill, target)
        IN (includes(hand, skill) /\ next # gameState) =>
               LET kept == WithoutFirst(hand, skill)
                   landsOnTile == /\ skill = "warp"
                                  /\ target[1] \in DOMAIN gameState.skillTiles
               IN /\ Len(next.hands[activator]) =
                         Len(kept) + (IF landsOnTile THEN 1 ELSE 0)
                  /\ SubSeq(next.hands[activator], 1, Len(kept)) = kept
                  /\ next.hands[Opponent(activator)] =
                         gameState.hands[Opponent(activator)]

\* A skill the player held two copies of has been activated and one copy
\* is still in that player's hand.
C19_Witness ==
    /\ lastCall = [op |-> "applySkill", outcome |-> "accepted"]
    /\ Len(gameState.logs) > 0
    /\ gameState.logs[Len(gameState.logs)].template = "use"
    /\ \E player \in Players, skill \in SkillTypes :
          /\ gameState.logs[Len(gameState.logs)].player = playerLabel(player)
          /\ gameState.logs[Len(gameState.logs)].skill = SKILL_NAMES[skill]
          /\ includes(gameState.hands[player], skill)

\* The number of discs on a board.
TotalDiscs(board) == getScore(board).black + getScore(board).white

(***************************************************************************)
(* C20.  For every board, player, protection overlay and legal placement,  *)
(* applyMove yields a board on which the mover's disc count is greater     *)
(* than before by 1 plus the number of flips (at least one, so strictly    *)
(* greater), and the total disc count is exactly one greater than before.  *)
(***************************************************************************)
C20_ApplyMoveCounts ==
    flipCall # <<>> =>
        LET call == flipCall[1]
        IN isValidMove(flipInput.board, call.player, call.row, call.col,
                       flipInput.protection) =>
              /\ getScore(call.moved)[call.player] =
                     getScore(flipInput.board)[call.player] + 1 + Len(call.flippable)
              /\ getScore(call.moved)[call.player] >
                     getScore(flipInput.board)[call.player]
              /\ TotalDiscs(call.moved) = TotalDiscs(flipInput.board) + 1

\* applyMove has been applied to a legal placement that flips two discs
\* while a protection overlay is in force.
C20_Witness ==
    /\ flipCall # <<>>
    /\ Len(flipCall[1].flippable) = 2
    /\ flipCall[1].moved # flipInput.board
    /\ flipInput.protection.shield # {}

\* The state is the one a session starts in, as far as the board and the
\* turn go.
AtOpening ==
    /\ gameState.turnIndex = 0
    /\ gameState.currentPlayer = "black"
    /\ ~gameState.gameOver
    /\ \A p \in Cells :
          gameState.board[p[1] + 1][p[2] + 1] =
              IF p \in {<<3, 3>>, <<4, 4>>} THEN "white"
              ELSE IF p \in {<<3, 4>>, <<4, 3>>} THEN "black" ELSE NULL

(***************************************************************************)
(* C21.  From the initial state (White at (3,3) and (4,4), Black at (3,4)  *)
(* and (4,3), Black to move), makeMove(2,3) is accepted, turns exactly the *)
(* White disc at (3,3) and no other, and gives score black 4, white 1      *)
(* with White to move.  The session starts in that state.                  *)
(***************************************************************************)
C21_OpeningMove ==
    /\ gameState.turnIndex = 0 => AtOpening
    /\ AtOpening =>
          LET next == makeMove(gameState, 2, 3)
          IN /\ next # gameState
             /\ next.lastMove = <<[player |-> "black", row |-> 2, col |-> 3,
                                   flipped |-> << <<3, 3>> >>]>>
             /\ \A p \in Cells :
                   next.board[p[1] + 1][p[2] + 1] =
                       IF p \in {<<2, 3>>, <<3, 3>>} THEN "black"
                       ELSE gameState.board[p[1] + 1][p[2] + 1]
             /\ next.score = [black |-> 4, white |-> 1]
             /\ next.currentPlayer = "white"

\* Black has opened with (2,3).
C21_Witness ==
    /\ lastCall = [op |-> "makeMove", outcome |-> "accepted"]
    /\ gameState.turnIndex = 1
    /\ gameState.lastMove # <<>>
    /\ gameState.lastMove[1].player = "black"
    /\ gameState.lastMove[1].row = 2
    /\ gameState.lastMove[1].col = 3
    /\ gameState.score = [black |-> 4, white |-> 1]

\* lastMove is non-null and carries the player and the coordinate.
Carries(lastMove, player, cell) ==
    /\ lastMove # <<>>
    /\ lastMove[1].player = player
    /\ lastMove[1].row = cell[1]
    /\ lastMove[1].col = cell[2]

(***************************************************************************)
(* C22 as stated.  After an accepted makeMove, warp, convert or remove,    *)
(* lastMove is non-null and carries the acting player and the coordinate   *)
(* acted on.                                                               *)
(***************************************************************************)
C22_LastMoveOnEveryBoardEffect ==
    \A cell \in Cells :
        /\ LET next == makeMove(gameState, cell[1], cell[2])
           IN next # gameState => Carries(next.lastMove, gameState.currentPlayer, cell)
        /\ \A skill \in {"warp", "convert", "remove"} :
              LET next == applySkill(gameState, skill, <<cell>>)
              IN next # gameState =>
                     Carries(next.lastMove, gameState.currentPlayer, cell)

(***************************************************************************)
(* C22, amended.  After an accepted makeMove or warp, lastMove is non-null *)
(* and carries the acting player and the coordinate acted on; after an     *)
(* accepted convert or remove, lastMove is null.                           *)
(***************************************************************************)
C22_LastMoveOnPlacementAndWarp ==
    \A cell \in Cells :
        /\ LET next == makeMove(gameState, cell[1], cell[2])
           IN next # gameState => Carries(next.lastMove, gameState.currentPlayer, cell)
        /\ LET next == applySkill(gameState, "warp", <<cell>>)
           IN next # gameState => Carries(next.lastMove, gameState.currentPlayer, cell)
        /\ \A skill \in {"convert", "remove"} :
              LET next == applySkill(gameState, skill, <<cell>>)
              IN next # gameState => next.lastMove = <<>>

\* A convert or a remove has just changed the board and lastMove is null.
C22_Witness ==
    /\ lastCall = [op |-> "applySkill", outcome |-> "accepted"]
    /\ Len(gameState.logs) > 0
    /\ gameState.logs[Len(gameState.logs)].template = "use"
    /\ gameState.logs[Len(gameState.logs)].skill \in
           {SKILL_NAMES["convert"], SKILL_NAMES["remove"]}
    /\ gameState.lastMove = <<>>

\* The number of cells of the board that hold a disc of the player.
DiscsOn(board, player) ==
    Cardinality({p \in Cells : board[p[1] + 1][p[2] + 1] = player})

(***************************************************************************)
(* C23.  Score is derived from the board: in every reachable state         *)
(* score.black and score.white are the numbers of Black and White discs on *)
(* the current board, whatever placements and skills led there, and when   *)
(* the game is over the winner is the colour with more discs on the final  *)
(* board, or a draw when the counts are equal.                             *)
(***************************************************************************)
C23_ScoreDerivedFromBoard ==
    /\ gameState.score.black = DiscsOn(gameState.board, "black")
    /\ gameState.score.white = DiscsOn(gameState.board, "white")
    /\ gameState.gameOver =>
          gameState.winner =
              IF DiscsOn(gameState.board, "black") > DiscsOn(gameState.board, "white")
              THEN "black"
              ELSE IF DiscsOn(gameState.board, "white") > DiscsOn(gameState.board, "black")
              THEN "white" ELSE "draw"

\* A convert has just changed the colour of a disc with no placement.
C23_Witness ==
    /\ lastCall = [op |-> "applySkill", outcome |-> "accepted"]
    /\ Len(gameState.logs) > 0
    /\ gameState.logs[Len(gameState.logs)].template = "use"
    /\ gameState.logs[Len(gameState.logs)].skill = SKILL_NAMES["convert"]
    /\ gameState.score.black # gameState.score.white

\* The game has ended with a winner declared.
C23_WitnessGameOver ==
    /\ gameState.gameOver
    /\ gameState.winner \in Players

\* The barrier after a turn advance out of turn index `turn`: the barrier as
\* it was, its active flag cleared once the turn index passes expiresOnTurn.
BarrierPastTurn(barrier, turn) ==
    IF barrier # <<>> /\ barrier[1].active /\ turn + 1 > barrier[1].expiresOnTurn
    THEN <<[active |-> FALSE,
            owner |-> barrier[1].owner,
            appliesTo |-> barrier[1].appliesTo,
            expiresOnTurn |-> barrier[1].expiresOnTurn,
            cells |-> barrier[1].cells]>>
    ELSE barrier

(***************************************************************************)
(* C24.  Convert and remove change only their target: an accepted convert  *)
(* makes the target cell the current player's colour, an accepted remove   *)
(* makes it empty, both clear the shield flag of that cell, and no other   *)
(* board cell, no other shield flag, no skill tile and not the barrier is  *)
(* changed; the turn then advances (the advance is what may clear the      *)
(* active flag of a barrier whose turn has passed).                        *)
(***************************************************************************)
C24_ConvertRemoveOnlyTarget ==
    \A skill \in {"convert", "remove"}, cell \in Cells :
        LET next == applySkill(gameState, skill, <<cell>>)
        IN next # gameState =>
              /\ next.board[cell[1] + 1][cell[2] + 1] =
                     IF skill = "convert" THEN gameState.currentPlayer ELSE NULL
              /\ \A p \in Cells \ {cell} :
                     next.board[p[1] + 1][p[2] + 1] = gameState.board[p[1] + 1][p[2] + 1]
              /\ next.shield = gameState.shield \ {cell}
              /\ next.skillTiles = gameState.skillTiles
              /\ next.barrier = BarrierPastTurn(gameState.barrier, gameState.turnIndex)
              /\ next.turnIndex = gameState.turnIndex + 1

\* A remove has just taken a shielded disc off the board: the cell is empty
\* and its shield flag is cleared.
C24_Witness ==
    /\ lastCall = [op |-> "applySkill", outcome |-> "accepted"]
    /\ Len(gameState.logs) > 1
    /\ gameState.logs[Len(gameState.logs)].template = "use"
    /\ gameState.logs[Len(gameState.logs)].skill = SKILL_NAMES["remove"]
    /\ gameState.logs[Len(gameState.logs) - 1].template = "use"
    /\ gameState.logs[Len(gameState.logs) - 1].skill = SKILL_NAMES["shield"]
    /\ gameState.logs[Len(gameState.logs)].pos = gameState.logs[Len(gameState.logs) - 1].pos
    /\ gameState.shield = {}

\* A convert or a remove has been accepted while a barrier was on the board.
C24_WitnessBarrier ==
    /\ lastCall = [op |-> "applySkill", outcome |-> "accepted"]
    /\ Len(gameState.logs) > 0
    /\ gameState.logs[Len(gameState.logs)].template = "use"
    /\ gameState.logs[Len(gameState.logs)].skill \in
           {SKILL_NAMES["convert"], SKILL_NAMES["remove"]}
    /\ gameState.barrier # <<>>

(***************************************************************************)
(* C25.  Warp places a disc with no capture: an accepted warp on an empty  *)
(* cell changes exactly that one board cell to the current player's colour *)
(* and flips nothing; a skill tile on that cell is consumed, and it is     *)
(* added to the player's hand iff the hand holds fewer than 2 skills after *)
(* the warp itself has been removed from it; the turn then advances.       *)
(***************************************************************************)
C25_WarpPlacesWithoutCapture ==
    \A cell \in Cells :
        LET player == gameState.currentPlayer
            kept == WithoutFirst(gameState.hands[player], "warp")
            next == applySkill(gameState, "warp", <<cell>>)
        IN next # gameState =>
              /\ gameState.board[cell[1] + 1][cell[2] + 1] = NULL
              /\ next.board[cell[1] + 1][cell[2] + 1] = player
              /\ \A p \in Cells \ {cell} :
                     next.board[p[1] + 1][p[2] + 1] = gameState.board[p[1] + 1][p[2] + 1]
              /\ next.lastMove # <<>> /\ next.lastMove[1].flipped = <<>>
              /\ IF cell \in DOMAIN gameState.skillTiles
                 THEN /\ DOMAIN next.skillTiles = (DOMAIN gameState.skillTiles) \ {cell}
                      /\ next.hands[player] =
                             IF Len(kept) < HandCapacity
                             THEN Append(kept, gameState.skillTiles[cell]) ELSE kept
                 ELSE /\ next.skillTiles = gameState.skillTiles
                      /\ next.hands[player] = kept
              /\ next.turnIndex = gameState.turnIndex + 1

\* A warp has put a disc next to an opponent disc it brackets, and the
\* bracketed disc has kept its colour.
C25_Witness ==
    /\ lastCall = [op |-> "applySkill", outcome |-> "accepted"]
    /\ gameState.lastMove # <<>>
    /\ gameState.lastMove[1].flipped = <<>>
    /\ \E i \in 1 .. Len(DIRECTIONS) :
          Bracketed(gameState.board, gameState.lastMove[1].player,
                    gameState.lastMove[1].row, gameState.lastMove[1].col,
                    DIRECTIONS[i]) # {}

\* A warp has been accepted.
C25_WitnessWarp ==
    /\ lastCall = [op |-> "applySkill", outcome |-> "accepted"]
    /\ gameState.lastMove # <<>>
    /\ gameState.lastMove[1].flipped = <<>>

\* The number of tiles of the layout that hold the skill.
TilesOf(skillTiles, skill) ==
    Cardinality({k \in DOMAIN skillTiles : skillTiles[k] = skill})

\* A fresh session state.
Fresh(s) ==
    /\ \A p \in Cells :
          s.board[p[1] + 1][p[2] + 1] =
              IF p \in {<<3, 3>>, <<4, 4>>} THEN "white"
              ELSE IF p \in {<<3, 4>>, <<4, 3>>} THEN "black" ELSE NULL
    /\ s.currentPlayer = "black"
    /\ s.score = [black |-> 2, white |-> 2]
    /\ ~s.gameOver
    /\ s.winner = NULL
    /\ s.hands = [black |-> <<>>, white |-> <<>>]
    /\ s.shield = {}
    /\ s.barrier = <<>>
    /\ s.logs = <<>>
    /\ s.turnIndex = 0
    /\ ~s.turnSkillUsed
    /\ s.doubleMoveRemaining = 0
    /\ Cardinality(DOMAIN s.skillTiles) = 8
    /\ TilesOf(s.skillTiles, "convert") = 2
    /\ TilesOf(s.skillTiles, "warp") = 1
    /\ TilesOf(s.skillTiles, "double") = 1
    /\ TilesOf(s.skillTiles, "shield") = 1
    /\ TilesOf(s.skillTiles, "barrier") = 1
    /\ TilesOf(s.skillTiles, "remove") = 2
    /\ \A k \in DOMAIN s.skillTiles :
          /\ k \in Cells
          /\ k \notin {<<0, 0>>, <<0, 7>>, <<7, 0>>, <<7, 7>>}
          /\ k \notin {<<3, 3>>, <<3, 4>>, <<4, 3>>, <<4, 4>>}

(***************************************************************************)
(* C30.  Session start, and resetGame from any state, give a fresh state:  *)
(* standard opening board, Black to move, score 2-2, gameOver false,       *)
(* winner null, empty hands, empty shield grid, no barrier, empty log,     *)
(* turnIndex 0, turnSkillUsed false, doubleMoveRemaining 0, and 8 tiles    *)
(* (2 convert, 1 warp, 1 double, 1 shield, 1 barrier, 2 remove) on 8       *)
(* distinct cells, none a corner and none a centre cell, for every outcome *)
(* of the shuffle.                                                         *)
(***************************************************************************)
C30_FreshState ==
    lastCall.op \in {"init", "resetGame"} => Fresh(gameState)

\* resetGame has been called and has dealt a tile onto the edge of the
\* board.
C30_Witness ==
    /\ lastCall.op = "resetGame"
    /\ \E k \in DOMAIN gameState.skillTiles : k[1] = 0
    /\ \E k \in DOMAIN gameState.skillTiles : k[1] \in 2 .. 5 /\ k[2] \in 2 .. 5

(***************************************************************************)
(* C26.  The AI never attempts an illegal intent: on the snapshot a CPU    *)
(* decision is computed from, the move returned by chooseMove is a legal   *)
(* placement for the CPU player under its protection, and the action       *)
(* returned by chooseSkillAction names a skill held in the CPU player's    *)
(* hand, with turnSkillUsed false and doubleMoveRemaining 0, whose target  *)
(* satisfies isValidSkillTarget for that skill (for "double": no target,   *)
(* and the CPU player has a legal placement); at every level.  The         *)
(* session accepts the intent issued once its update is rendered.          *)
(***************************************************************************)
\* `action`, returned by chooseSkillAction for `player` on snapshot s, is
\* one the rules allow.
LegalSkillAction(s, player, action) ==
    /\ includes(s.hands[player], action.skill)
    /\ ~s.turnSkillUsed
    /\ s.doubleMoveRemaining = 0
    /\ IF action.skill = "double"
       THEN action.target = <<>> /\ CanPlace(s, player)
       ELSE /\ action.target # <<>>
            /\ isValidSkillTarget(s, action.skill, action.target[1][1],
                                  action.target[1][2])
            /\ appIsValidSkillTarget(s, action.skill, action.target[1][1],
                                     action.target[1][2])

C26_AiIntentsLegal ==
    cpuIssued # <<>> =>
        LET snapshot == cpuIssued[1].timer.snapshot
            cpu == cpuIssued[1].timer.cpuPlayer
        IN /\ snapshot.currentPlayer = cpu
           /\ cpuIssued[1].move # <<>> =>
                 LegalPlacement(snapshot, cpu, cpuIssued[1].move[1][1],
                                cpuIssued[1].move[1][2])
           /\ cpuIssued[1].action # <<>> =>
                 LegalSkillAction(snapshot, cpu, cpuIssued[1].action[1])
           /\ cpuIssued[1].intent # "passTurn" /\ app.pendingUpdate = <<>> =>
                 lastCall.outcome = "accepted"

\* A skill action has been issued by the CPU.
C26_Witness ==
    /\ cpuIssued # <<>>
    /\ cpuIssued[1].action # <<>>
    /\ cpuIssued[1].action[1].skill # "double"

\* A placement chosen at the 'hard' level has been issued.
C26_WitnessHard ==
    /\ cpuIssued # <<>>
    /\ cpuIssued[1].timer.cpuLevel = "hard"
    /\ cpuIssued[1].move # <<>>

\* A placement drawn at the 'easy' level has been issued.
C26_WitnessEasy ==
    /\ cpuIssued # <<>>
    /\ cpuIssued[1].timer.cpuLevel = "easy"
    /\ cpuIssued[1].move # <<>>

\* The CPU has issued "double".
C26_WitnessDouble ==
    /\ cpuIssued # <<>>
    /\ cpuIssued[1].action # <<>>
    /\ cpuIssued[1].action[1].skill = "double"

\* The CPU has issued "convert" on a disc of the opponent.
C26_WitnessConvert ==
    /\ cpuIssued # <<>>
    /\ cpuIssued[1].action # <<>>
    /\ cpuIssued[1].action[1].skill = "convert"

\* The CPU has issued "remove" on a disc of the opponent.
C26_WitnessRemove ==
    /\ cpuIssued # <<>>
    /\ cpuIssued[1].action # <<>>
    /\ cpuIssued[1].action[1].skill = "remove"

\* The CPU has issued "shield", "barrier" and "warp".
C26_WitnessShield ==
    /\ cpuIssued # <<>>
    /\ cpuIssued[1].action # <<>>
    /\ cpuIssued[1].action[1].skill = "shield"

C26_WitnessBarrier ==
    /\ cpuIssued # <<>>
    /\ cpuIssued[1].action # <<>>
    /\ cpuIssued[1].action[1].skill = "barrier"

C26_WitnessWarp ==
    /\ cpuIssued # <<>>
    /\ cpuIssued[1].action # <<>>
    /\ cpuIssued[1].action[1].skill = "warp"

(***************************************************************************)
(* C27.  No stale AI decision is applied: a step that resets the session   *)
(* or changes the session state, the mode, the CPU side or the level       *)
(* while a CPU timer is pending cancels that timer; every timer pending    *)
(* after a step was set for the session state, the CPU side and the level  *)
(* that now hold, in CPU mode; no timer is pending while an update of a    *)
(* callback waits for its render or for the effect of that render; and     *)
(* the callback of a timer issues its intent against the session state     *)
(* its timer was set for, which is the state the update is applied to      *)
(* when it is rendered.                                                    *)
(***************************************************************************)
\* The step resets the session or changes a value the CPU decision is made
\* from.
SessionOrSettingsChange ==
    \/ gameState' # gameState
    \/ lastCall'.op = "resetGame"
    \/ app'.mode # app.mode
    \/ app'.cpuPlayer # app.cpuPlayer
    \/ app'.cpuLevel # app.cpuLevel

\* Timer t was set for the session state s and the component values a.
SetFor(t, s, a) ==
    /\ t.snapshot = s
    /\ t.cpuPlayer = a.cpuPlayer
    /\ t.cpuLevel = a.cpuLevel
    /\ a.mode = "cpu"

NoStaleStep ==
    /\ SessionOrSettingsChange => \A t \in timers : t \notin timers'
    /\ \A t \in timers' : SetFor(t, gameState', app')
    /\ app.pendingUpdate # <<>> \/ app.effectPending => timers = {}
    /\ cpuIssued' # <<>> /\ cpuIssued' # cpuIssued =>
          /\ cpuIssued'[1].timer \in timers
          /\ SetFor(cpuIssued'[1].timer, gameState, app)
    /\ app.pendingUpdate # <<>> /\ gameState' # gameState /\ cpuIssued # <<>> =>
          \/ lastCall'.op = "resetGame"
          \/ /\ cpuIssued[1].timer.snapshot = gameState
             /\ gameState' = applyUpdate(cpuIssued[1].timer.snapshot, app.pendingUpdate[1])

C27_NoStaleDecision == [][NoStaleStep]_vars

\* A reset has cancelled a pending timer and a new one has been set.
C27_Witness ==
    /\ lastCall.op = "resetGame"
    /\ \E t \in timers : t.id > 1

\* A firing after a change of level that cancelled a timer.
C27_WitnessFiring ==
    /\ cpuIssued # <<>>
    /\ cpuIssued[1].timer.id > 1
    /\ cpuIssued[1].timer.cpuLevel # "normal"

(***************************************************************************)
(* C28.  At most one AI computation is in flight: in every reachable state *)
(* at most one CPU timer is pending, it is the one cpuTimerRef holds, and  *)
(* cpuBusyRef is set exactly while one is pending.                         *)
(***************************************************************************)
C28_SingleTimer ==
    /\ Cardinality(timers) <= 1
    /\ \A t \in timers : app.cpuTimerRef = <<t.id>> /\ app.cpuBusyRef
    /\ timers = {} => app.cpuTimerRef = <<>> /\ ~app.cpuBusyRef

\* A timer is pending that was set in the step that cancelled another.
C28_Witness ==
    /\ \E t \in timers : t.id > 1
    /\ cpuIssued = <<>>

(***************************************************************************)
(* C29.  In CPU mode, whenever it is the CPU player's turn, the game is    *)
(* not over and no intent of the CPU is waiting for its render or for the  *)
(* effect of that render, a CPU timer is pending; when a timer fires, one   *)
(* intent is issued: the skill action if chooseSkillAction returns one,    *)
(* otherwise the chosen placement if the CPU player has a legal placement, *)
(* otherwise passTurn; and a CPU turn is always followed by a firing,      *)
(* unless the user ends it by leaving CPU mode or changing the CPU side,   *)
(* or goes on changing the level for ever, each change clearing the timer  *)
(* and setting one anew.                                                   *)
(***************************************************************************)
OpenCpuTurn == isCpuTurn(app, gameState) /\ ~gameState.gameOver

\* What chooseSkillAction can return on the snapshot of timer t.
SkillActionsOpen(t) ==
    {chooseSkillAction(t.snapshot, t.cpuLevel, t.cpuPlayer, aboveChance) :
        aboveChance \in Chances(t)}

IssuedInOrder(issued) ==
    /\ IF app.pendingUpdate # <<>>
       THEN app.pendingUpdate = <<[intent |-> issued.intent, action |-> issued.action,
                                   move |-> issued.move]>>
       ELSE lastCall.op = issued.intent
    /\ issued.intent = "applySkill" =>
          /\ issued.action # <<>>
          /\ issued.action \in SkillActionsOpen(issued.timer)
    /\ issued.intent = "makeMove" =>
          /\ <<>> \in SkillActionsOpen(issued.timer)
          /\ CanPlace(issued.timer.snapshot, issued.timer.cpuPlayer)
          /\ issued.move # <<>>
    /\ issued.intent = "passTurn" =>
          /\ <<>> \in SkillActionsOpen(issued.timer)
          /\ ~CanPlace(issued.timer.snapshot, issued.timer.cpuPlayer)

\* The callback has issued an intent whose render is not complete: its
\* update is not rendered yet, or the effect of that render has not run.
IntentAwaitsRender == app.pendingUpdate # <<>> \/ app.effectPending

CpuTurnServed ==
    /\ OpenCpuTurn /\ ~IntentAwaitsRender => timers # {}
    /\ cpuIssued # <<>> => IssuedInOrder(cpuIssued[1])

\* As CpuTurnServed, with a timer pending on every open CPU turn.
CpuTurnServedAtAllTimes ==
    /\ OpenCpuTurn => timers # {}
    /\ cpuIssued # <<>> => IssuedInOrder(cpuIssued[1])

\* The last firing was that of the timer with this id.
Fired(id) == cpuIssued # <<>> /\ cpuIssued[1].timer.id = id

\* An open CPU turn on which no timer has fired yet leads to a firing,
\* unless the user ends it by leaving CPU mode or changing the CPU side; one
\* reached by a firing leads to the firing of the timer set for it, or to a
\* handler of the user and so to the first case.
CpuTurnLeadsToIntent ==
    /\ (OpenCpuTurn /\ WithinBound /\ cpuIssued = <<>>)
          ~> (cpuIssued # <<>> \/ ~OpenCpuTurn)
    /\ \A id \in TimerIdRange :
          (OpenCpuTurn /\ WithinBound /\ cpuIssued # <<>> /\ ~Fired(id)
             /\ \E t \in timers : t.id = id)
          ~> (Fired(id) \/ cpuIssued = <<>>)

\* A change of the level clears the pending timer and sets one anew, whose
\* delay starts over.
LevelChanged == app'.cpuLevel # app.cpuLevel

\* As CpuTurnLeadsToIntent, for the user who does not go on changing the
\* level for ever.
CpuTurnLeadsToIntentUnlessRestarted ==
    /\ \/ []<><<LevelChanged>>_vars
       \/ (OpenCpuTurn /\ WithinBound /\ cpuIssued = <<>>)
             ~> (cpuIssued # <<>> \/ ~OpenCpuTurn)
    /\ \A id \in TimerIdRange :
          (OpenCpuTurn /\ WithinBound /\ cpuIssued # <<>> /\ ~Fired(id)
             /\ \E t \in timers : t.id = id)
          ~> (Fired(id) \/ cpuIssued = <<>>)

C29_CpuTurnGetsIntent ==
    /\ [](CpuTurnServed /\ \A t \in timers : t.id \in TimerIdRange)
    /\ CpuTurnLeadsToIntentUnlessRestarted

\* The claim as stated: a timer is pending whenever the CPU is to move and
\* the game is not over, and every CPU turn is followed by a firing.
C29_AsStated ==
    /\ []CpuTurnServedAtAllTimes
    /\ CpuTurnLeadsToIntent

\* The callback has returned and its update is not rendered: the CPU is to
\* move in the state as rendered and no timer is pending.
C29_WitnessAwaitsRender ==
    /\ OpenCpuTurn
    /\ app.pendingUpdate # <<>>
    /\ timers = {}
    /\ cpuIssued # <<>>

\* The CPU's "double" is committed and the effect has not run: the CPU is
\* still to move and no timer is pending.
C29_WitnessAwaitsEffect ==
    /\ OpenCpuTurn
    /\ app.effectPending
    /\ gameState.doubleMoveRemaining > 0
    /\ timers = {}

\* The callback issues passTurn on no CPU turn the App reaches: the session
\* leaves no player to move who has no placement.
C29_PassTurnNotIssued ==
    /\ OpenCpuTurn => CanPlace(gameState, app.cpuPlayer)
    /\ cpuIssued # <<>> => cpuIssued[1].intent # "passTurn"

\* The CPU has passed over a skill in its hand and placed a disc.
C29_Witness ==
    /\ cpuIssued # <<>>
    /\ cpuIssued[1].intent = "makeMove"
    /\ cpuIssued[1].timer.snapshot.hands[cpuIssued[1].timer.cpuPlayer] # <<>>

\* The CPU has used a skill where it had a placement.
C29_WitnessSkill ==
    /\ cpuIssued # <<>>
    /\ cpuIssued[1].intent = "applySkill"
    /\ CanPlace(cpuIssued[1].timer.snapshot, cpuIssued[1].timer.cpuPlayer)

(***************************************************************************)
(* C31  Without skills the skill variant plays the base game                *)
(***************************************************************************)
\* The fields of a skill-variant state that the base variant has too.
BaseFields(s) ==
    [board |-> s.board, currentPlayer |-> s.currentPlayer, score |-> s.score,
     gameOver |-> s.gameOver, winner |-> s.winner, lastMove |-> s.lastMove]

\* No skill has been activated in the session.
NoSkillActivated ==
    /\ gameState.shield = createEmptyBoolGrid
    /\ gameState.barrier = <<>>
    /\ ~gameState.turnSkillUsed
    /\ gameState.doubleMoveRemaining = 0

\* C31: when every makeMove call is made to a skill-variant session and to a
\* base-variant session, both started from the opening position, and no
\* skill is ever activated, then after every call the two sessions have the
\* same board, currentPlayer, score, gameOver, winner and lastMove, and the
\* call was accepted, rejected or raised in both alike.
C31_SkillsExtendBaseRule ==
    /\ NoSkillActivated
    /\ BaseFields(gameState) = baseSession.state
    /\ lastCall.outcome = baseSession.outcome

\* Both sessions have accepted a placement after which the player to move
\* next had no placement and the mover stays the current player.
C31_Witness ==
    /\ lastCall.outcome = "accepted"
    /\ gameState.lastMove # <<>>
    /\ gameState.currentPlayer = gameState.lastMove[1].player
    /\ ~gameState.gameOver
    /\ baseSession.state.currentPlayer = gameState.currentPlayer

\* Both sessions have ended the game on the same placement.
C31_WitnessGameOver ==
    /\ gameState.gameOver
    /\ baseSession.state.gameOver
    /\ gameState.winner = baseSession.state.winner
    /\ gameState.winner # NULL

\* Both sessions have rejected a call while holding a tile picked up by a
\* placement in the skill variant.
C31_WitnessRejected ==
    /\ lastCall.outcome = "rejected"
    /\ baseSession.outcome = "rejected"
    /\ gameState.hands.black # <<>>

(***************************************************************************)
(* C32  What an accepted makeMove changes                                   *)
(***************************************************************************)
\* The cells on which two boards differ.
ChangedCells(before, after) ==
    {p \in Cells : after[p[1] + 1][p[2] + 1] # before[p[1] + 1][p[2] + 1]}

\* makeMove(row, col), if accepted in state s with result next, changes the
\* placed cell and the cells of the computed flip list and no other, all to
\* the mover's colour, and lastMove describes exactly that.
PlacementFrame(s, row, col, next) ==
    LET mover == s.currentPlayer
        flippable == getFlippableDiscs(s.board, mover, row, col,
                                       ProtectionInForce(s, mover))
        turned == {p \in Cells : /\ s.board[p[1] + 1][p[2] + 1] = Opponent(mover)
                                 /\ next.board[p[1] + 1][p[2] + 1] = mover}
    IN next # s =>
          /\ ChangedCells(s.board, next.board) = {<<row, col>>} \cup SeqToSet(flippable)
          /\ \A p \in ChangedCells(s.board, next.board) :
                next.board[p[1] + 1][p[2] + 1] = mover
          /\ s.board[row + 1][col + 1] = NULL
          /\ next.lastMove # <<>>
          /\ SeqToSet(next.lastMove[1].flipped) = turned
          /\ Len(next.lastMove[1].flipped) = Cardinality(turned)
          /\ next.lastMove[1].player = mover
          /\ next.lastMove[1].row = row
          /\ next.lastMove[1].col = col

\* applyMove on a placement that flips nothing returns the board it was given.
IllegalPlacementKeepsBoard(s, row, col) ==
    LET mover == s.currentPlayer
        protection == ProtectionInForce(s, mover)
    IN ~isValidMove(s.board, mover, row, col, protection) =>
          applyMove(s.board, mover, row, col, protection) = s.board

\* C32: an accepted makeMove changes exactly the placed cell and the cells of
\* the computed flip list, all to the mover's colour; lastMove.flipped of the
\* result is exactly the set of cells that went from the opponent's colour to
\* the mover's, lastMove.player is the mover and lastMove.row/col the placed
\* cell; applyMove on an illegal placement returns the board unchanged.
C32_PlacementFrame ==
    \A row \in Coords, col \in Coords :
       /\ PlacementFrame(gameState, row, col, makeMove(gameState, row, col))
       /\ IllegalPlacementKeepsBoard(gameState, row, col)

\* A placement has been accepted that turned two or more discs while a
\* shield or a barrier was on the board.
C32_Witness ==
    /\ lastCall = [op |-> "makeMove", outcome |-> "accepted"]
    /\ gameState.lastMove # <<>>
    /\ Len(gameState.lastMove[1].flipped) >= 2
    /\ gameState.shield # createEmptyBoolGrid \/ gameState.barrier # <<>>

(***************************************************************************)
(* C33  No stuck turn                                                       *)
(***************************************************************************)
\* C33: in every reachable state with gameOver false the current player has
\* a legal placement under the protection in force at the current turn index
\* (the shield, and the barrier when it applies to that player at that turn),
\* also inside a double sequence; no pass is needed for the game to go on.
C33_NoStuckTurn ==
    ~gameState.gameOver => CanPlace(gameState, gameState.currentPlayer)

\* The current player is inside a double sequence, one placement made and one
\* to go.
C33_Witness ==
    /\ ~gameState.gameOver
    /\ gameState.doubleMoveRemaining = 1
    /\ lastCall = [op |-> "makeMove", outcome |-> "accepted"]

\* The current player is to move under a barrier that applies at this turn.
C33_WitnessBarrier ==
    /\ ~gameState.gameOver
    /\ ProtectionInForce(gameState, gameState.currentPlayer).barrier # <<>>
    /\ lastCall = [op |-> "applySkill", outcome |-> "accepted"]

(***************************************************************************)
(* C34  The turn flags                                                      *)
(***************************************************************************)
\* C34: in every reachable state doubleMoveRemaining is 0, 1 or 2 and
\* turnSkillUsed is true exactly when doubleMoveRemaining > 0; turnSkillUsed
\* goes from true to false only in a step that adds 1 to turnIndex, or by
\* resetGame.
C34_TurnFlagsConsistent ==
    /\ [](/\ gameState.doubleMoveRemaining \in {0, 1, 2}
          /\ gameState.turnSkillUsed <=> gameState.doubleMoveRemaining > 0)
    /\ [][(gameState.turnSkillUsed /\ ~gameState'.turnSkillUsed) =>
             TurnAdvances \/ lastCall'.op = "resetGame"]_vars

\* Inside a double sequence after its first placement: the flag is set, one
\* placement remains, and both resetGame and a second placement can follow.
C34_Witness ==
    /\ gameState.turnSkillUsed
    /\ gameState.doubleMoveRemaining = 1
    /\ lastCall = [op |-> "makeMove", outcome |-> "accepted"]

(***************************************************************************)
(* C35  Skill tiles and the stock of skills                                 *)
(***************************************************************************)
\* The skill tiles on the board plus the skills in both hands.
SkillStock(s) ==
    Cardinality(DOMAIN s.skillTiles) + Len(s.hands.black) + Len(s.hands.white)

\* C35: in every reachable state every key of skillTiles is an empty cell of
\* the board and the number of skill tiles plus the number of skills in both
\* hands is at most 8; that number never increases in a step of a game (any
\* step but resetGame).
C35_TilesOnEmptyCellsStockShrinks ==
    /\ [](/\ \A k \in DOMAIN gameState.skillTiles :
                /\ k \in Cells
                /\ gameState.board[k[1] + 1][k[2] + 1] = NULL
          /\ SkillStock(gameState) <= Len(SKILL_POOL))
    /\ [][lastCall'.op # "resetGame" =>
             SkillStock(gameState') <= SkillStock(gameState)]_vars

\* A warp has landed on a tile: the tile is gone, the warp is spent, and the
\* skill of the tile is in the hand.
C35_Witness ==
    /\ lastCall = [op |-> "applySkill", outcome |-> "accepted"]
    /\ gameState.lastMove # <<>>
    /\ gameState.lastMove[1].flipped = <<>>
    /\ Cardinality(DOMAIN gameState.skillTiles) <= Len(SKILL_POOL) - 2
    /\ SkillStock(gameState) = Len(SKILL_POOL) - 1

\* A skill has been used, so the stock is below 8, and tiles are left.
C35_WitnessUsed ==
    /\ SkillStock(gameState) < Len(SKILL_POOL)
    /\ DOMAIN gameState.skillTiles # {}

(***************************************************************************)
(* C36  A shield covers a disc and freezes it                               *)
(***************************************************************************)
\* The step is an accepted convert or remove on cell p.
ConvertOrRemoveOn(p) ==
    /\ lastCall' = [op |-> "applySkill", outcome |-> "accepted"]
    /\ \E skill \in {"convert", "remove"} :
          gameState' = applySkill(gameState, skill, <<p>>)

\* C36: in every reachable state every cell whose shield flag is set holds a
\* disc; in every step that keeps the flag of a cell set, by whichever player
\* and whatever placement or skill, the disc on it keeps its colour and
\* stays; a step clears the flag of a cell only when it is a convert or a
\* remove on that cell, or resetGame.
C36_ShieldFreezesDisc ==
    /\ [](\A p \in gameState.shield :
             /\ p \in Cells
             /\ gameState.board[p[1] + 1][p[2] + 1] # NULL)
    /\ [][\A p \in gameState.shield :
             IF p \in gameState'.shield
             THEN gameState'.board[p[1] + 1][p[2] + 1] =
                     gameState.board[p[1] + 1][p[2] + 1]
             ELSE lastCall'.op = "resetGame" \/ ConvertOrRemoveOn(p)]_vars

\* The opponent of a shielded disc's owner has placed a disc and captured,
\* and the disc is still shielded and of its owner's colour.
C36_Witness ==
    /\ lastCall = [op |-> "makeMove", outcome |-> "accepted"]
    /\ \E p \in gameState.shield :
          gameState.board[p[1] + 1][p[2] + 1] = Opponent(gameState.lastMove[1].player)

\* A shield was set and its flag has since been cleared by a skill.
C36_WitnessCleared ==
    /\ gameState.shield = createEmptyBoolGrid
    /\ lastCall = [op |-> "applySkill", outcome |-> "accepted"]
    /\ \E player \in Players, p \in Cells :
          logEntry("use", player, "shield", formatPos(p[1], p[2]))
              \in SeqToSet(gameState.logs)

(***************************************************************************)
(* C37  The life of a barrier                                               *)
(***************************************************************************)
\* The barrier of state s is non-null and active.
BarrierActive(s) == s.barrier # <<>> /\ s.barrier[1].active

\* C37: in every reachable state whose barrier is non-null and active,
\* barrier.expiresOnTurn is the turn index at which the barrier was activated
\* plus 1 and is the current turnIndex; the flag stays true while the turn
\* index does not exceed expiresOnTurn and becomes false in the first turn
\* advance that produces a turn index greater than expiresOnTurn.
C37_BarrierLifetime ==
    /\ [](BarrierActive(gameState) =>
             /\ barrierLog # <<>>
             /\ gameState.barrier[1].expiresOnTurn = barrierLog[1].turn + 1
             /\ gameState.barrier[1].expiresOnTurn = gameState.turnIndex)
    /\ [][(BarrierActive(gameState) /\ lastCall'.op # "resetGame"
             /\ gameState'.barrier # <<>>
             /\ gameState'.barrier[1].expiresOnTurn = gameState.barrier[1].expiresOnTurn) =>
             (gameState'.barrier[1].active <=>
                 gameState'.turnIndex <= gameState.barrier[1].expiresOnTurn)]_vars

\* The turn under the barrier has been played and the barrier is no longer
\* active.
C37_Witness ==
    /\ gameState.barrier # <<>>
    /\ ~gameState.barrier[1].active
    /\ gameState.turnIndex = gameState.barrier[1].expiresOnTurn + 1
    /\ lastCall.outcome = "accepted"

\* The barrier has just been activated and the player it applies to is to
\* move.
C37_WitnessActive ==
    /\ BarrierActive(gameState)
    /\ lastCall = [op |-> "applySkill", outcome |-> "accepted"]
    /\ gameState.currentPlayer = gameState.barrier[1].appliesTo

(***************************************************************************)
(* C38  Every game terminates                                               *)
(***************************************************************************)
EmptyCells(s) == Cardinality({p \in Cells : s.board[p[1] + 1][p[2] + 1] = NULL})

\* What is left to play: a remove opens one cell again and uses up a skill.
Remaining(s) == EmptyCells(s) + 2 * SkillStock(s)

\* A step in which a makeMove or applySkill call was accepted.
IntentAccepted ==
    /\ lastCall'.outcome = "accepted"
    /\ lastCall'.op \in {"makeMove", "applySkill"}
    /\ gameState' # gameState

\* Every accepted intent fills an empty cell or takes a skill out of the
\* mover's hand, and leaves strictly less to play.
EveryIntentUsesUp ==
    [][IntentAccepted =>
          /\ \/ EmptyCells(gameState') = EmptyCells(gameState) - 1
             \/ Len(gameState'.hands[gameState.currentPlayer]) =
                   Len(gameState.hands[gameState.currentPlayer]) - 1
          /\ Remaining(gameState') < Remaining(gameState)]_vars

\* C38: in a game without resetGame every accepted intent fills an empty
\* cell or takes a skill out of the mover's hand, of which there are at most
\* 8 in a game, so that what is left to play (empty cells plus twice the
\* skills on the board and in the hands) gets strictly smaller with every
\* accepted intent; while the game is not over the current player has a
\* placement and the turn index is below 64 + 2 * 8; and if the players keep
\* issuing legal intents, gameOver eventually becomes true.
C38_EveryGameTerminates ==
    /\ EveryIntentUsesUp
    /\ [](Remaining(gameState) >= 0 /\ SkillStock(gameState) <= Len(SKILL_POOL))
    /\ [](~gameState.gameOver =>
             WithinBound /\ CanPlace(gameState, gameState.currentPlayer))
    /\ <>gameState.gameOver

\* The game is over after a remove had opened a cell again.
C38_Witness ==
    /\ gameState.gameOver
    /\ \E player \in Players, p \in Cells :
          logEntry("use", player, "remove", formatPos(p[1], p[2]))
              \in SeqToSet(gameState.logs)

(***************************************************************************)
(* C39  No game over because of a barrier                                   *)
(***************************************************************************)
\* `player` has a placement on the board of s that captures a disc no shield
\* covers, whatever barrier there is.
CanPlaceBarrierAside(s, player) ==
    \E row \in Coords, col \in Coords : UnshieldedCaptures(s, player, row, col) # {}

\* C39: in every state with gameOver true neither player has a legal
\* placement on the final board under the shield protection alone, that is,
\* also with any barrier left out.
C39_NoGameOverByBarrier ==
    gameState.gameOver =>
        \A player \in Players : ~CanPlaceBarrierAside(gameState, player)

\* The game is over, ended by a placement of the barrier's owner at the turn
\* the barrier covered: the other player had been left without a placement.
C39_Witness ==
    /\ gameState.gameOver
    /\ gameState.barrier # <<>>
    /\ gameState.turnIndex = gameState.barrier[1].expiresOnTurn + 1
    /\ gameState.lastMove # <<>>
    /\ gameState.lastMove[1].player = gameState.barrier[1].owner

\* The barrier has left the player it applies to without a placement, the
\* barrier aside that player has one, and the game goes on with the owner
\* to move.
C39_WitnessBarred ==
    /\ ~gameState.gameOver
    /\ BarrierActive(gameState)
    /\ gameState.currentPlayer = gameState.barrier[1].owner
    /\ ~CanPlace(gameState, gameState.barrier[1].appliesTo)
    /\ CanPlaceBarrierAside(gameState, gameState.barrier[1].appliesTo)

(***************************************************************************)
(* C40: In CPU mode, while it is the CPU player's turn, no human board     *)
(* click, skill click, skill confirmation or skill cancel reaches makeMove *)
(* or applySkill or changes the pending skill selection: a step taken on   *)
(* the CPU's turn that calls the session, changes the session state or     *)
(* changes pendingSkill or pendingTarget is the intent of the AI's timer   *)
(* callback, or a reset made by PLAY AGAIN, a mode change or a change of   *)
(* the CPU side.                                                           *)
(***************************************************************************)
PendingSelection(a) == <<a.pendingSkill, a.pendingTarget>>

\* The step is the render of the update the timer callback has enqueued:
\* the AI's intent reaches the session state.
AiIntentStep ==
    /\ app.pendingUpdate # <<>>
    /\ app'.pendingUpdate = <<>>
    /\ gameState' = applyUpdate(gameState, app.pendingUpdate[1])
    /\ lastCall'.op = app.pendingUpdate[1].intent
    /\ PendingSelection(app') = PendingSelection(app)

\* The step is a reset of the session by one of the three handlers.
ResetStep ==
    /\ lastCall'.op = "resetGame"
    /\ \E positions \in CpuShuffles : gameState' = resetGame(positions)
    /\ \/ gameState.gameOver /\ PendingSelection(app') = PendingSelection(app)
       \/ app'.mode # app.mode /\ PendingSelection(app') = <<<<>>, <<>>>>
       \/ app'.cpuPlayer # app.cpuPlayer /\ PendingSelection(app') = <<<<>>, <<>>>>

\* The step leaves the session and the pending selection alone.
SessionUntouched ==
    /\ gameState' = gameState
    /\ lastCall' = lastCall
    /\ PendingSelection(app') = PendingSelection(app)

CpuTurnStep ==
    isCpuTurn(app, gameState) => AiIntentStep \/ ResetStep \/ SessionUntouched

C40_CpuTurnClosedToHuman == [][CpuTurnStep]_vars

\* The CPU is to move with its timer pending, and a click would do
\* something were it the human's turn: a cell is a legal placement and a
\* skill of the hand passes canUseSkill.
C40_Witness ==
    /\ isCpuTurn(app, gameState)
    /\ ~gameState.gameOver
    /\ WithinBound
    /\ timers # {}
    /\ \E row \in Coords, col \in Coords : makeMove(gameState, row, col) # gameState
    /\ \E skill \in SkillTypes :
          SKILL_REQUIRES_TARGET(skill) /\ canUseSkill(gameState, app.pendingSkill, skill)

\* The AI's intent has been rendered and it is still the CPU's turn.
C40_WitnessAiIntent ==
    /\ isCpuTurn(app, gameState)
    /\ cpuIssued # <<>>
    /\ app.pendingUpdate = <<>>
    /\ lastCall.outcome = "accepted"
    /\ lastCall.op = cpuIssued[1].intent

\* On the human's turn the same clicks select a skill and a target.
C40_WitnessHumanSelects ==
    /\ app.mode = "cpu"
    /\ ~isCpuTurn(app, gameState)
    /\ app.pendingSkill # <<>>
    /\ app.pendingTarget # <<>>

\* No selection is pending when the CPU's turn begins or while it lasts.
C40_NoSelectionOnCpuTurn ==
    isCpuTurn(app, gameState) => PendingSelection(app) = <<<<>>, <<>>>>

====
